---- MODULE Spec2Model ----
(***************************************************************************)
(* A model of the peer-to-peer chunk transfer program: the handshake       *)
(* manager (WHOHAS / IHAVE / DENIED / GET), the reliable transfer layer    *)
(* (DATA / ACK, congestion window, fast retransmit, timeouts), the         *)
(* download manager and the event loop of peer.py.                         *)
(*                                                                         *)
(* Every peer runs the same code, so every piece of program state is a     *)
(* function of the peer.  Python dicts are iterated in insertion order     *)
(* and several handlers take "the first matching entry", so dicts are      *)
(* modelled as sequences of entries in insertion order.                    *)
(*                                                                         *)
(* Time: the code compares time.time() - <timestamp> with a threshold.     *)
(* A timestamp is modelled by its age, time.time() - <timestamp>,          *)
(* in milliseconds, saturating at AGE_CAP; the literal 0.0 that a fresh    *)
(* Connection has in last_send_time is the age EPOCH_AGE.                  *)
(*                                                                         *)
(* The statistics counters of Connection (packets_sent, packets_acked,     *)
(* packets_lost, bytes_transferred, retransmission_count, created_at,      *)
(* last_ack_time) are written and never read by any handler; they are      *)
(* left out.                                                               *)
(***************************************************************************)
EXTENDS Integers, Sequences, FiniteSets, TLC

\* ------------------------------------------------------------------ bounds

\* Model scale of the datagram size BUF_SIZE (1400 in packet.py:13).
BUF_SIZE == 14
\* Model scale of CHUNK_SIZE (512 * 1024 in packet.py:17).
CHUNK_SIZE == 5
\* Largest -m (max_conn) the initial states draw.
MaxMaxConn == 2
\* Largest acknowledgment number an arbitrary peer puts in an ACK, counted
\* beyond the number of packets of the largest chunk.
MaxAckBeyond == 1
\* Most datagrams the network holds at once; what does not fit is lost.
MaxInFlight == 2
\* the packets of the chunk that lets a window grow, and the largest
\* denominator of a window that still gets an ACK
WindowPackets == 11
MaxDenominator == 1000
\* The -t option of the peers that run with a fixed timeout, in seconds.
FixedTimeout == 5

\* ------------------------------------------------------- program constants

HEADER_LEN == 12
HASH_LEN == 20
INIT_SSTHRESH == 64
MAX_PAYLOAD_SIZE == BUF_SIZE - HEADER_LEN

\* Times are in milliseconds.
INIT_ESTIMATED_RTT == 1000
INIT_DEV_RTT == 500
\* the 0.1 s that select() waits in peer_run
SELECT_TIMEOUT == 100
\* The clock is observed every TIME_STEP: 160 rounds of the event loop, longer
\* than the initial timeout interval of a connection and than the cleanup
\* interval.
TIME_STEP == 160 * SELECT_TIMEOUT
\* request_timeout of DownloadManager and the default of cleanup_old_requests
REQUEST_TIMEOUT == 30000
\* cleanup_interval of peer_run
CLEANUP_INTERVAL == 5000
\* The oldest a timestamp of a live connection grows before the connection is
\* looked at again.
AGE_CAP == TIME_STEP
\* The age of the timestamp 0.0 (1970), beyond every timeout interval the
\* estimator can reach from samples of at most AGE_CAP.
EPOCH_AGE == 10 * AGE_CAP

WHOHAS == 0
IHAVE == 1
GET == 2
DATA == 3
ACK == 4
DENIED == 5

\* ----------------------------------------------------------------- helpers

Min(a, b) == IF a < b THEN a ELSE b
Max(a, b) == IF a > b THEN a ELSE b

RECURSIVE Gcd(_, _)
Gcd(a, b) == IF b = 0 THEN a ELSE Gcd(b, a % b)

\* b''.join(list)
RECURSIVE Join(_)
Join(list) == IF list = <<>> THEN <<>> ELSE Head(list) \o Join(Tail(list))

SeqToSet(s) == {s[i] : i \in 1..Len(s)}

\* Optional[str]: None, or one value
None == <<>>
Some(x) == <<x>>

\* ---------------------------------------------------------------- packet.py

HexChars == <<"0", "1", "2", "3", "4", "5", "6", "7",
              "8", "9", "a", "b", "c", "d", "e", "f">>

\* str.lower() on one character of a hexadecimal string
Lower(ch) ==
  CASE ch = "A" -> "a" [] ch = "B" -> "b" [] ch = "C" -> "c"
    [] ch = "D" -> "d" [] ch = "E" -> "e" [] ch = "F" -> "f"
    [] OTHER -> ch

HexVal(ch) == (CHOOSE i \in 1..16 : HexChars[i] = Lower(ch)) - 1

\* hash_bytes.hex(): two lowercase digits per byte
bytes_to_hex_string(hash_bytes) ==
  [i \in 1..(2 * Len(hash_bytes)) |->
     IF i % 2 = 1 THEN HexChars[(hash_bytes[(i + 1) \div 2] \div 16) + 1]
     ELSE HexChars[(hash_bytes[i \div 2] % 16) + 1]]

\* bytes.fromhex(hex_string.strip().lower())
hex_string_to_bytes(hex_string) ==
  [i \in 1..(Len(hex_string) \div 2) |->
     16 * HexVal(hex_string[2 * i - 1]) + HexVal(hex_string[2 * i])]

\* The parsed form of a datagram (PacketInfo); builders fill the header.
PacketInfo(pkt_type, seq_num, ack_num, payload) ==
  [pkt_type |-> pkt_type, seq_num |-> seq_num, ack_num |-> ack_num,
   payload |-> payload]

build_who_has_packet(chunk_hashes) == PacketInfo(WHOHAS, 0, 0, Join(chunk_hashes))
build_i_have_packet(chunk_hashes) == PacketInfo(IHAVE, 0, 0, Join(chunk_hashes))
build_get_packet(chunk_hash) == PacketInfo(GET, 0, 0, chunk_hash)
build_data_packet(seq_num, data) == PacketInfo(DATA, seq_num, 0, data)
build_ack_packet(ack_num) == PacketInfo(ACK, 0, ack_num, <<>>)
build_denied_packet == PacketInfo(DENIED, 0, 0, <<>>)

\* extract_chunk_hashes raises ValueError on such a payload
BadHashPayload(payload) == Len(payload) % HASH_LEN # 0

\* [payload[i:i+20] for i in range(0, len(payload), 20)]
extract_chunk_hashes(payload) ==
  [k \in 1..(Len(payload) \div HASH_LEN) |->
     SubSeq(payload, (k - 1) * HASH_LEN + 1, k * HASH_LEN)]

\* ------------------------------------------------------------ connection.py

\* cwnd is a float in the code; the model keeps it as the exact fraction
\* n / d in lowest terms.
Frac(n, d) == [n |-> n \div Gcd(n, d), d |-> d \div Gcd(n, d)]

\* Connection.__init__
Connection(peer_addr, chunk_hash, direction) ==
  [peer_addr |-> peer_addr, chunk_hash |-> chunk_hash, direction |-> direction,
   state |-> "idle", seq_num |-> 0, ack_num |-> 0,
   send_buffer |-> <<>>, recv_buffer |-> <<>>, chunk_data |-> <<>>,
   cwnd |-> Frac(1, 1), ssthresh |-> INIT_SSTHRESH,
   estimated_rtt |-> INIT_ESTIMATED_RTT, dev_rtt |-> INIT_DEV_RTT,
   timeout_interval |-> INIT_ESTIMATED_RTT + 4 * INIT_DEV_RTT,
   last_send_age |-> EPOCH_AGE,
   duplicate_ack_count |-> 0,
   has_first_packet_time |-> FALSE, first_packet_age |-> 0]

update_state(c, new_state) == [c EXCEPT !.state = new_state]

\* is_active that takes every connection for an active one
AnyStateActive(c) == c.state \in {"handshake", "transfer", "complete", "error"}

is_active(c) == c.state \in {"handshake", "transfer"}
is_upload(c) == c.direction = "upload"
is_download(c) == c.direction = "download"

\* (current_time - self.last_send_time) > self.timeout_interval
should_retransmit(c) == c.last_send_age > c.timeout_interval

Abs(x) == IF x < 0 THEN 0 - x ELSE x

\* alpha = 0.15, beta = 0.3, in integer milliseconds
update_timeout_on_ack(c, sample_rtt) ==
  LET est == (85 * c.estimated_rtt + 15 * sample_rtt) \div 100
      dev == (70 * c.dev_rtt + 30 * Abs(sample_rtt - est)) \div 100
  IN [c EXCEPT !.estimated_rtt = est, !.dev_rtt = dev,
               !.timeout_interval = est + 4 * dev]

\* if cwnd < ssthresh: cwnd += 1   else: cwnd += 1.0 / cwnd
\* update_cwnd_on_ack that stays in slow start
AlwaysSlowStart(c) == [c EXCEPT !.cwnd = Frac(c.cwnd.n + c.cwnd.d, c.cwnd.d)]

update_cwnd_on_ack(c) ==
  IF c.cwnd.n < c.ssthresh * c.cwnd.d
  THEN [c EXCEPT !.cwnd = Frac(c.cwnd.n + c.cwnd.d, c.cwnd.d)]
  ELSE [c EXCEPT !.cwnd = Frac(c.cwnd.n * c.cwnd.n + c.cwnd.d * c.cwnd.d,
                               c.cwnd.n * c.cwnd.d)]

\* update_cwnd_on_loss without the floor of 2: ssthresh = int(cwnd / 2); cwnd = 1
HalveBelowTwo(c) ==
  [c EXCEPT !.ssthresh = c.cwnd.n \div (2 * c.cwnd.d), !.cwnd = Frac(1, 1)]

\* update_cwnd_on_loss that forgets the window it had: ssthresh = 2; cwnd = 1
LossWithoutHalving(c) == [c EXCEPT !.ssthresh = 2, !.cwnd = Frac(1, 1)]

\* ssthresh = max(int(cwnd / 2), 2); cwnd = 1
update_cwnd_on_loss(c) ==
  [c EXCEPT !.ssthresh = Max(c.cwnd.n \div (2 * c.cwnd.d), 2),
            !.cwnd = Frac(1, 1)]

\* max(1, int(cwnd))
get_send_window(c) == Max(1, c.cwnd.n \div c.cwnd.d)

can_send_more(c) ==
  IF is_upload(c) THEN (c.seq_num - c.ack_num) < get_send_window(c) ELSE FALSE

\* self.send_buffer.append((seq_num, data))
add_to_send_buffer(c, seq_num, data) ==
  [c EXCEPT !.send_buffer = Append(@, [seq |-> seq_num, data |-> data])]

\* [(s, d) for s, d in self.send_buffer if s > ack_num]
RECURSIVE BufferAbove(_, _)
BufferAbove(buf, ack_num) ==
  IF buf = <<>> THEN <<>>
  ELSE IF Head(buf).seq > ack_num
       THEN <<Head(buf)>> \o BufferAbove(Tail(buf), ack_num)
       ELSE BufferAbove(Tail(buf), ack_num)

\* handle_ack taking any other acknowledgment number for a new one
HandleAckAnyNumber(c, ack_num) ==
  IF ack_num # c.ack_num
  THEN [conn |-> update_cwnd_on_ack(
                   [c EXCEPT !.ack_num = ack_num,
                             !.duplicate_ack_count = 0,
                             !.send_buffer = BufferAbove(c.send_buffer, ack_num)]),
        ret |-> TRUE]
  ELSE [conn |-> [c EXCEPT !.duplicate_ack_count = @ + 1], ret |-> FALSE]

\* Connection.handle_ack: the connection after the call and the value returned
handle_ack(c, ack_num) ==
  IF ack_num > c.ack_num
  THEN [conn |-> update_cwnd_on_ack(
                   [c EXCEPT !.ack_num = ack_num,
                             !.duplicate_ack_count = 0,
                             !.send_buffer = BufferAbove(c.send_buffer, ack_num)]),
        ret |-> TRUE]
  ELSE [conn |-> [c EXCEPT !.duplicate_ack_count = @ + 1], ret |-> FALSE]

should_fast_retransmit(c) == c.duplicate_ack_count >= 3

\* one round of the loop of add_received_data, and no more
DrainOnce(c) ==
  IF (c.ack_num + 1) \in DOMAIN c.recv_buffer
  THEN [c EXCEPT !.chunk_data = @ \o c.recv_buffer[c.ack_num + 1],
                 !.ack_num = @ + 1]
  ELSE c

\* while self.ack_num + 1 in self.recv_buffer: drain it into chunk_data
RECURSIVE Drain(_)
Drain(c) ==
  IF (c.ack_num + 1) \in DOMAIN c.recv_buffer
  THEN Drain([c EXCEPT !.chunk_data = @ \o c.recv_buffer[c.ack_num + 1],
                       !.ack_num = @ + 1])
  ELSE c

\* Connection.add_received_data: the connection after the call and the value
\* returned.  recv_buffer is a dict {seq_num: data}: a function on its keys.
add_received_data(c, seq_num, data) ==
  IF c.direction # "download" THEN [conn |-> c, ret |-> FALSE]
  ELSE IF seq_num \notin DOMAIN c.recv_buffer
  THEN [conn |-> Drain([c EXCEPT !.recv_buffer =
                          [k \in (DOMAIN c.recv_buffer) \cup {seq_num} |->
                             IF k = seq_num THEN data ELSE c.recv_buffer[k]]]),
        ret |-> TRUE]
  ELSE [conn |-> c, ret |-> FALSE]

is_chunk_complete(c, expected_size) ==
  IF c.direction # "download" THEN FALSE
  ELSE Len(c.chunk_data) >= expected_size

get_chunk_data(c) == c.chunk_data

\* ------------------------------------------------- dicts in insertion order

\* A dict is a sequence of entries [key, val], in insertion order.
DictHas(d, key) == \E i \in 1..Len(d) : d[i].key = key
DictIndex(d, key) == CHOOSE i \in 1..Len(d) : d[i].key = key
DictGet(d, key) == d[DictIndex(d, key)].val

\* d[key] = val: a new key goes last, a present key keeps its place
DictPut(d, key, val) ==
  IF DictHas(d, key)
  THEN [d EXCEPT ![DictIndex(d, key)] = [key |-> key, val |-> val]]
  ELSE Append(d, [key |-> key, val |-> val])

\* del d[key]
RECURSIVE DictDel(_, _)
DictDel(d, key) ==
  IF d = <<>> THEN <<>>
  ELSE IF Head(d).key = key THEN Tail(d)
  ELSE <<Head(d)>> \o DictDel(Tail(d), key)

DictKeys(d) == {d[i].key : i \in 1..Len(d)}

\* A datagram handed to sock.sendto
Sent(pkt, addr) == [to |-> addr, pkt |-> pkt]

\* ------------------------------------------------------ reliable_transfer.py

\* context.timeout is in seconds; 0 means "estimate from the RTT"
custom_timeout(timeout) == 1000 * timeout

create_download_connection(download_connections, chunk_hash, peer_addr, timeout) ==
  LET c0 == Connection(peer_addr, chunk_hash, "download")
      c1 == IF timeout > 0
            THEN [c0 EXCEPT !.timeout_interval = custom_timeout(timeout)]
            ELSE c0
  IN DictPut(download_connections, chunk_hash, update_state(c1, "transfer"))

\* chunk_data[start:end] for packet number seq_num (from 0)
PacketSlice(chunk_data, seq_num) ==
  SubSeq(chunk_data, seq_num * MAX_PAYLOAD_SIZE + 1,
         Min(seq_num * MAX_PAYLOAD_SIZE + MAX_PAYLOAD_SIZE, Len(chunk_data)))

\* math.ceil(len(chunk_data) / MAX_PAYLOAD_SIZE)
NumPackets(chunk_data) ==
  (Len(chunk_data) + MAX_PAYLOAD_SIZE - 1) \div MAX_PAYLOAD_SIZE

\* the send buffer of a fresh upload: packets 1..N of the chunk
RECURSIVE FillSendBuffer(_, _, _)
FillSendBuffer(c, chunk_data, seq_num) ==
  IF seq_num >= NumPackets(chunk_data) THEN c
  ELSE FillSendBuffer(
         add_to_send_buffer(c, seq_num + 1, PacketSlice(chunk_data, seq_num)),
         chunk_data, seq_num + 1)

\* has_chunks is a dict {hex hash: chunk bytes}.  A missing or empty chunk
\* leaves the dict as it is (the connection, in state error, is dropped).
create_upload_connection(upload_connections, peer_addr, chunk_hash, has_chunks, timeout) ==
  LET c0 == Connection(peer_addr, chunk_hash, "upload")
      c1 == IF timeout > 0
            THEN [c0 EXCEPT !.timeout_interval = custom_timeout(timeout)]
            ELSE c0
  IN IF ~DictHas(has_chunks, chunk_hash) \/ DictGet(has_chunks, chunk_hash) = <<>>
     THEN upload_connections
     ELSE DictPut(upload_connections, <<peer_addr, chunk_hash>>,
                  update_state(FillSendBuffer(c1, DictGet(has_chunks, chunk_hash), 0),
                               "transfer"))

\* the entry of send_buffer with this sequence number, or none
BufferHas(buf, seq) == \E i \in 1..Len(buf) : buf[i].seq = seq
BufferData(buf, seq) == buf[CHOOSE i \in 1..Len(buf) : buf[i].seq = seq].data

\* the while loop of send_data_packets
RECURSIVE SendLoop(_, _, _)
SendLoop(c, next_seq, sent) ==
  IF next_seq <= Len(c.send_buffer)
     /\ next_seq <= c.ack_num + get_send_window(c)
     /\ BufferHas(c.send_buffer, next_seq)
  THEN SendLoop([c EXCEPT !.last_send_age = 0, !.seq_num = next_seq],
                next_seq + 1,
                Append(sent, Sent(build_data_packet(next_seq,
                                    BufferData(c.send_buffer, next_seq)),
                                  c.peer_addr)))
  ELSE [conn |-> c, sent |-> sent]

send_data_packets(c) ==
  IF ~can_send_more(c) THEN [conn |-> c, sent |-> <<>>]
  ELSE SendLoop(c, Max(c.seq_num, c.ack_num + 1), <<>>)

start_data_upload(upload_connections, peer_addr, chunk_hash) ==
  LET key == <<peer_addr, chunk_hash>> IN
  IF ~DictHas(upload_connections, key)
     \/ DictGet(upload_connections, key).state # "transfer"
  THEN [upload |-> upload_connections, sent |-> <<>>]
  ELSE LET r == send_data_packets(DictGet(upload_connections, key))
       IN [upload |-> DictPut(upload_connections, key, r.conn), sent |-> r.sent]

\* the first connection of the dict from this peer in state transfer
HasTransferFrom(conns, from_addr) ==
  \E i \in 1..Len(conns) :
     conns[i].val.peer_addr = from_addr /\ conns[i].val.state = "transfer"

FirstTransferFrom(conns, from_addr) ==
  CHOOSE i \in 1..Len(conns) :
     /\ conns[i].val.peer_addr = from_addr /\ conns[i].val.state = "transfer"
     /\ \A j \in 1..(i - 1) :
          ~(conns[j].val.peer_addr = from_addr /\ conns[j].val.state = "transfer")

\* the RTT sample of handle_data_packet: none on the first new packet
SampleRtt(c) ==
  IF c.has_first_packet_time
  THEN update_timeout_on_ack(c, c.first_packet_age)
  ELSE [c EXCEPT !.has_first_packet_time = TRUE, !.first_packet_age = 0]

handle_data_packet(download_connections, pkt_info, from_addr) ==
  IF ~HasTransferFrom(download_connections, from_addr)
  THEN [download |-> download_connections, sent |-> <<>>, ret |-> None]
  ELSE
    LET i == FirstTransferFrom(download_connections, from_addr)
        c == download_connections[i].val
        r == add_received_data(c, pkt_info.seq_num, pkt_info.payload)
        c1 == IF r.ret THEN SampleRtt(r.conn) ELSE r.conn
        done == r.ret /\ is_chunk_complete(c1, CHUNK_SIZE)
        c2 == IF done THEN update_state(c1, "complete") ELSE c1
    IN [download |-> [download_connections EXCEPT ![i].val = c2],
        sent |-> <<Sent(build_ack_packet(c1.ack_num), from_addr)>>,
        ret |-> IF done THEN Some(c2.chunk_hash) ELSE None]

\* trigger_fast_retransmit that sends the last packet sent once more
RetransmitLastSent(c) ==
  LET c1 == update_cwnd_on_loss(c)
      found == BufferHas(c1.send_buffer, c1.seq_num)
  IN [conn |-> [c1 EXCEPT !.last_send_age = IF found THEN 0 ELSE @,
                          !.duplicate_ack_count = 0],
      sent |-> IF found
               THEN <<Sent(build_data_packet(c1.seq_num,
                             BufferData(c1.send_buffer, c1.seq_num)), c1.peer_addr)>>
               ELSE <<>>]

\* retransmit ack_num + 1 if the send buffer still holds it
trigger_fast_retransmit(c) ==
  LET c1 == update_cwnd_on_loss(c)
      lost_seq == c1.ack_num + 1
      found == BufferHas(c1.send_buffer, lost_seq)
  IN [conn |-> [c1 EXCEPT !.last_send_age = IF found THEN 0 ELSE @,
                          !.duplicate_ack_count = 0],
      sent |-> IF found
               THEN <<Sent(build_data_packet(lost_seq,
                             BufferData(c1.send_buffer, lost_seq)), c1.peer_addr)>>
               ELSE <<>>]

handle_ack_packet(upload_connections, pkt_info, from_addr) ==
  IF ~HasTransferFrom(upload_connections, from_addr)
  THEN [upload |-> upload_connections, sent |-> <<>>, ret |-> None]
  ELSE
    LET i == FirstTransferFrom(upload_connections, from_addr)
        c == upload_connections[i].val
        r == handle_ack(c, pkt_info.ack_num)
    IN IF r.ret
       THEN LET s == send_data_packets(r.conn)
                done == s.conn.ack_num >= Len(s.conn.send_buffer)
                c2 == IF done THEN update_state(s.conn, "complete") ELSE s.conn
            IN [upload |-> [upload_connections EXCEPT ![i].val = c2],
                sent |-> s.sent,
                ret |-> IF done THEN Some(c2.chunk_hash) ELSE None]
       ELSE LET c1 == [r.conn EXCEPT !.duplicate_ack_count = @ + 1]
                f == IF should_fast_retransmit(c1)
                     THEN trigger_fast_retransmit(c1)
                     ELSE [conn |-> c1, sent |-> <<>>]
            IN [upload |-> [upload_connections EXCEPT ![i].val = f.conn],
                sent |-> f.sent, ret |-> None]

\* handle_download_timeout that gives the connection up
GiveUpOnTimeout(c) ==
  LET c1 == update_state(update_cwnd_on_loss(c), "error")
  IN [conn |-> c1, sent |-> <<Sent(build_ack_packet(c1.ack_num), c1.peer_addr)>>]

handle_download_timeout(c) ==
  LET c1 == update_cwnd_on_loss(c)
  IN [conn |-> c1, sent |-> <<Sent(build_ack_packet(c1.ack_num), c1.peer_addr)>>]

\* the first entry of send_buffer with seq >= resend_seq
HasAtLeast(buf, seq) == \E i \in 1..Len(buf) : buf[i].seq >= seq
FirstAtLeast(buf, seq) ==
  buf[CHOOSE i \in 1..Len(buf) :
        buf[i].seq >= seq /\ \A j \in 1..(i - 1) : buf[j].seq < seq]

\* handle_upload_timeout whose loop goes on after the first packet it resends
ResendAllUnacknowledged(c) ==
  LET c1 == update_cwnd_on_loss(c)
      resend == c1.ack_num < Len(c1.send_buffer)
                /\ HasAtLeast(c1.send_buffer, c1.ack_num + 1)
      due == SelectSeq(c1.send_buffer, LAMBDA e : e.seq >= c1.ack_num + 1)
  IN IF resend
     THEN [conn |-> [c1 EXCEPT !.last_send_age = 0],
           sent |-> [i \in 1..Len(due) |->
                       Sent(build_data_packet(due[i].seq, due[i].data), c1.peer_addr)]]
     ELSE [conn |-> c1, sent |-> <<>>]

handle_upload_timeout(c) ==
  LET c1 == update_cwnd_on_loss(c)
      resend == c1.ack_num < Len(c1.send_buffer)
                /\ HasAtLeast(c1.send_buffer, c1.ack_num + 1)
  IN IF resend
     THEN LET e == FirstAtLeast(c1.send_buffer, c1.ack_num + 1)
          IN [conn |-> [c1 EXCEPT !.last_send_age = 0],
              sent |-> <<Sent(build_data_packet(e.seq, e.data), c1.peer_addr)>>]
     ELSE [conn |-> c1, sent |-> <<>>]

\* one connection's turn in the two loops of handle_timeouts
DownloadTimeoutOf(c) ==
  IF is_active(c) /\ should_retransmit(c)
  THEN handle_download_timeout(c)
  ELSE [conn |-> c, sent |-> <<>>]

UploadTimeoutOf(c) ==
  IF is_active(c) /\ should_retransmit(c)
  THEN handle_upload_timeout(c)
  ELSE [conn |-> c, sent |-> <<>>]

RECURSIVE DownloadTimeoutSent(_)
DownloadTimeoutSent(conns) ==
  IF conns = <<>> THEN <<>>
  ELSE DownloadTimeoutOf(Head(conns).val).sent \o DownloadTimeoutSent(Tail(conns))

RECURSIVE UploadTimeoutSent(_)
UploadTimeoutSent(conns) ==
  IF conns = <<>> THEN <<>>
  ELSE UploadTimeoutOf(Head(conns).val).sent \o UploadTimeoutSent(Tail(conns))

rt_handle_timeouts(download_connections, upload_connections) ==
  [download |-> [i \in 1..Len(download_connections) |->
                   [download_connections[i] EXCEPT
                      !.val = DownloadTimeoutOf(download_connections[i].val).conn]],
   upload |-> [i \in 1..Len(upload_connections) |->
                 [upload_connections[i] EXCEPT
                    !.val = UploadTimeoutOf(upload_connections[i].val).conn]],
   sent |-> DownloadTimeoutSent(download_connections)
            \o UploadTimeoutSent(upload_connections)]

\* the entries that are neither complete nor in error, in order
RECURSIVE Unfinished(_)
Unfinished(conns) ==
  IF conns = <<>> THEN <<>>
  ELSE IF Head(conns).val.state \in {"complete", "error"}
       THEN Unfinished(Tail(conns))
       ELSE <<Head(conns)>> \o Unfinished(Tail(conns))

\* the chunk hashes of the complete download connections, in order
RECURSIVE CompletedChunks(_)
CompletedChunks(conns) ==
  IF conns = <<>> THEN <<>>
  ELSE IF Head(conns).val.state = "complete"
       THEN <<Head(conns).key>> \o CompletedChunks(Tail(conns))
       ELSE CompletedChunks(Tail(conns))

rt_cleanup_finished_connections(download_connections, upload_connections) ==
  [download |-> Unfinished(download_connections),
   upload |-> Unfinished(upload_connections),
   completed |-> CompletedChunks(download_connections)]

\* --------------------------------------------------------------- handshake.py

\* [hex_string_to_bytes(h) for h in chunk_hashes]
HashBytesList(chunk_hashes) ==
  [i \in 1..Len(chunk_hashes) |-> hex_string_to_bytes(chunk_hashes[i])]

\* [bytes_to_hex_string(h) for h in hashes]
HashStrings(hashes) ==
  [i \in 1..Len(hashes) |-> bytes_to_hex_string(hashes[i])]

\* the roster peers other than identity, in roster order: a roster entry is
\* [id, addr]
RECURSIVE OtherPeers(_, _)
OtherPeers(peers, identity) ==
  IF peers = <<>> THEN <<>>
  ELSE IF Head(peers).id # identity
       THEN <<Head(peers).addr>> \o OtherPeers(Tail(peers), identity)
       ELSE OtherPeers(Tail(peers), identity)

\* active_requests[chunk_hash] = (current_time, {}) for every hash of the list
RECURSIVE TrackRequests(_, _)
TrackRequests(active_requests, chunk_hashes) ==
  IF chunk_hashes = <<>> THEN active_requests
  ELSE TrackRequests(
         DictPut(active_requests, Head(chunk_hashes),
                 [request_age |-> 0, peer_responses |-> <<>>]),
         Tail(chunk_hashes))

send_who_has_request(active_requests, chunk_hashes, peers, identity) ==
  IF chunk_hashes = <<>> THEN [requests |-> active_requests, sent |-> <<>>]
  ELSE LET whohas_pkt == build_who_has_packet(HashBytesList(chunk_hashes))
           others == OtherPeers(peers, identity)
       IN [requests |-> TrackRequests(active_requests, chunk_hashes),
           sent |-> [i \in 1..Len(others) |-> Sent(whohas_pkt, others[i])]]

\* every requested hash, held or not
AllRequestedHashes(requested_hash_strings, has_chunks) ==
  HashBytesList(requested_hash_strings)

\* the requested hashes that has_chunks holds, as bytes, in request order
RECURSIVE AvailableHashes(_, _)
AvailableHashes(requested_hash_strings, has_chunks) ==
  IF requested_hash_strings = <<>> THEN <<>>
  ELSE IF DictHas(has_chunks, Head(requested_hash_strings))
       THEN <<hex_string_to_bytes(Head(requested_hash_strings))>>
            \o AvailableHashes(Tail(requested_hash_strings), has_chunks)
       ELSE AvailableHashes(Tail(requested_hash_strings), has_chunks)

\* handle_who_has_request looking at availability before the limit
WhoHasAvailabilityFirst(upload_connections, has_chunks, connection_limit, pkt_info, from_addr) ==
  IF BadHashPayload(pkt_info.payload) THEN <<>>
  ELSE LET requested == HashStrings(extract_chunk_hashes(pkt_info.payload))
       IN IF \E i \in 1..Len(requested) : \E j \in 1..Len(has_chunks) :
                has_chunks[j].key = requested[i]
          THEN <<Sent(build_i_have_packet(extract_chunk_hashes(pkt_info.payload)),
                      from_addr)>>
          ELSE <<Sent(build_denied_packet, from_addr)>>

\* the datagrams handle_who_has_request sends
handle_who_has_request(upload_connections, has_chunks, connection_limit, pkt_info, from_addr) ==
  IF BadHashPayload(pkt_info.payload) THEN <<>>
  ELSE LET requested == HashStrings(extract_chunk_hashes(pkt_info.payload))
           available_hashes == AvailableHashes(requested, has_chunks)
       IN IF Len(upload_connections) >= connection_limit
          THEN <<Sent(build_denied_packet, from_addr)>>
          ELSE IF available_hashes # <<>>
          THEN <<Sent(build_i_have_packet(available_hashes), from_addr)>>
          ELSE <<Sent(build_denied_packet, from_addr)>>

\* one hash of an IHAVE: record the responder under a tracked request
RecordResponse(active_requests, hash_str, from_addr, available) ==
  IF ~DictHas(active_requests, hash_str) THEN active_requests
  ELSE LET req == DictGet(active_requests, hash_str)
       IN IF DictHas(req.peer_responses, from_addr) THEN active_requests
          ELSE DictPut(active_requests, hash_str,
                       [req EXCEPT !.peer_responses = DictPut(@, from_addr, available)])

RECURSIVE RecordResponses(_, _, _, _)
RecordResponses(active_requests, todo, from_addr, available) ==
  IF todo = <<>> THEN active_requests
  ELSE RecordResponses(
         RecordResponse(active_requests, Head(todo), from_addr, available),
         Tail(todo), from_addr, available)

\* handle_i_have_response that records the sender under every hash of the
\* payload, tracked or not
RECURSIVE RecordUntracked(_, _, _, _)
RecordUntracked(active_requests, todo, from_addr, available) ==
  IF todo = <<>> THEN active_requests
  ELSE LET tracked == IF DictHas(active_requests, Head(todo)) THEN active_requests
                      ELSE DictPut(active_requests, Head(todo),
                                   [request_age |-> 0, peer_responses |-> <<>>])
       IN RecordUntracked(RecordResponse(tracked, Head(todo), from_addr, available),
                          Tail(todo), from_addr, available)

RecordEveryHash(active_requests, pkt_info, from_addr) ==
  IF BadHashPayload(pkt_info.payload) THEN active_requests
  ELSE LET available == HashStrings(extract_chunk_hashes(pkt_info.payload))
       IN RecordUntracked(active_requests, available, from_addr, available)

\* active_requests after handle_i_have_response
handle_i_have_response(active_requests, pkt_info, from_addr) ==
  IF BadHashPayload(pkt_info.payload) THEN active_requests
  ELSE LET available == HashStrings(extract_chunk_hashes(pkt_info.payload))
       IN RecordResponses(active_requests, available, from_addr, available)

send_get_request(chunk_hash, peer_addr) ==
  <<Sent(build_get_packet(hex_string_to_bytes(chunk_hash)), peer_addr)>>

\* handle_get_request without the check of the connection limit
GetWithoutLimit(upload_connections, has_chunks, connection_limit, pkt_info, from_addr) ==
  LET requested_hash == bytes_to_hex_string(pkt_info.payload)
      connection_key == <<from_addr, requested_hash>>
  IN IF Len(pkt_info.payload) # HASH_LEN \/ ~DictHas(has_chunks, requested_hash)
        \/ DictHas(upload_connections, connection_key)
     THEN [upload |-> upload_connections, ret |-> None]
     ELSE [upload |-> DictPut(upload_connections, connection_key,
                        update_state(Connection(from_addr, requested_hash, "upload"),
                                     "transfer")),
           ret |-> Some(requested_hash)]

\* handle_get_request without the check for an open connection of the same key
GetWithoutDuplicateCheck(upload_connections, has_chunks, connection_limit, pkt_info, from_addr) ==
  LET requested_hash == bytes_to_hex_string(pkt_info.payload)
      connection_key == <<from_addr, requested_hash>>
  IN IF Len(pkt_info.payload) # HASH_LEN \/ ~DictHas(has_chunks, requested_hash)
        \/ (Len(upload_connections) >= connection_limit
            /\ ~DictHas(upload_connections, connection_key))
     THEN [upload |-> upload_connections, ret |-> None]
     ELSE [upload |-> DictPut(upload_connections, connection_key,
                        update_state(Connection(from_addr, requested_hash, "upload"),
                                     "transfer")),
           ret |-> Some(requested_hash)]

\* the handshake manager's upload_connections after the GET and the value
\* returned
handle_get_request(upload_connections, has_chunks, connection_limit, pkt_info, from_addr) ==
  LET requested_hash == bytes_to_hex_string(pkt_info.payload)
      connection_key == <<from_addr, requested_hash>>
  IN IF Len(pkt_info.payload) # HASH_LEN
     THEN [upload |-> upload_connections, ret |-> None]
     ELSE IF ~DictHas(has_chunks, requested_hash)
     THEN [upload |-> upload_connections, ret |-> None]
     ELSE IF Len(upload_connections) >= connection_limit
     THEN [upload |-> upload_connections, ret |-> None]
     ELSE IF DictHas(upload_connections, connection_key)
     THEN [upload |-> upload_connections, ret |-> None]
     ELSE [upload |-> DictPut(upload_connections, connection_key,
                        update_state(Connection(from_addr, requested_hash, "upload"),
                                     "transfer")),
           ret |-> Some(requested_hash)]

\* list(peer_responses.keys())
get_download_candidates(active_requests, chunk_hash) ==
  IF ~DictHas(active_requests, chunk_hash) THEN <<>>
  ELSE LET r == DictGet(active_requests, chunk_hash).peer_responses
       IN [i \in 1..Len(r) |-> r[i].key]

\* cleanup_old_requests that lets no request expire
KeepOldRequests(active_requests, timeout) == active_requests

RECURSIVE cleanup_old_requests(_, _)
cleanup_old_requests(active_requests, timeout) ==
  IF active_requests = <<>> THEN <<>>
  ELSE IF Head(active_requests).val.request_age > timeout
       THEN cleanup_old_requests(Tail(active_requests), timeout)
       ELSE <<Head(active_requests)>>
            \o cleanup_old_requests(Tail(active_requests), timeout)

hs_cleanup_finished_connections(upload_connections) == Unfinished(upload_connections)

\* -------------------------------------------------------- download_manager.py

\* DownloadTask.__init__: needed_chunks is set(needed_chunks)
DownloadTask(output_file, needed_chunks) ==
  [output_file |-> output_file, needed_chunks |-> SeqToSet(needed_chunks),
   received_chunks |-> <<>>, completed |-> FALSE]

\* is_complete that holds of every task
CompleteAlways(t) == Len(t.received_chunks) >= 0

\* is_complete that is content with one received chunk
CompleteWithAnyChunk(t) == Len(t.received_chunks) >= 1

is_complete(t) == Len(t.received_chunks) >= Cardinality(t.needed_chunks)

\* DownloadTask.add_chunk: the task after the call and the value returned
add_chunk(t, chunk_hash, data) ==
  IF chunk_hash \in t.needed_chunks /\ ~DictHas(t.received_chunks, chunk_hash)
  THEN LET t1 == [t EXCEPT !.received_chunks = DictPut(@, chunk_hash, data)]
       IN [task |-> IF is_complete(t1) /\ ~t1.completed
                    THEN [t1 EXCEPT !.completed = TRUE] ELSE t1,
           ret |-> TRUE]
  ELSE [task |-> t, ret |-> FALSE]

\* A chunklist is a sequence of lines; a line, stripped and split, is a
\* sequence of fields; a field is a string (a sequence of characters).
IsEntryLine(line) == line # <<>> /\ Head(Head(line)) # "#" /\ Len(line) >= 2

\* the hashes of the chunklist, held or not
RECURSIVE AllListedChunks(_, _)
AllListedChunks(lines, has_chunks) ==
  IF lines = <<>> THEN <<>>
  ELSE IF IsEntryLine(Head(lines))
       THEN <<Head(lines)[2]>> \o AllListedChunks(Tail(lines), has_chunks)
       ELSE AllListedChunks(Tail(lines), has_chunks)

\* the hashes start_download reads from the chunklist and does not hold
RECURSIVE NeededChunks(_, _)
NeededChunks(lines, has_chunks) ==
  IF lines = <<>> THEN <<>>
  ELSE IF IsEntryLine(Head(lines)) /\ ~DictHas(has_chunks, Head(lines)[2])
       THEN <<Head(lines)[2]>> \o NeededChunks(Tail(lines), has_chunks)
       ELSE NeededChunks(Tail(lines), has_chunks)

\* for chunk_hash in needed_chunks: active_downloads[chunk_hash] = download_task
RECURSIVE MapChunks(_, _, _)
MapChunks(active, needed_chunks, task_id) ==
  IF needed_chunks = <<>> THEN active
  ELSE MapChunks(DictPut(active, Head(needed_chunks), task_id),
                 Tail(needed_chunks), task_id)

\* schedule_downloads without the check for an open download connection
RECURSIVE ScheduleAgain(_, _, _, _, _, _)
ScheduleAgain(todo, objs, download, active_requests, timeout, sent) ==
  IF todo = <<>> THEN [download |-> download, sent |-> sent]
  ELSE LET chunk_hash == Head(todo).key
           task == objs[Head(todo).val]
           candidates == get_download_candidates(active_requests, chunk_hash)
       IN IF DictHas(task.received_chunks, chunk_hash) \/ candidates = <<>>
          THEN ScheduleAgain(Tail(todo), objs, download, active_requests, timeout, sent)
          ELSE ScheduleAgain(Tail(todo), objs,
                 create_download_connection(download, chunk_hash, candidates[1], timeout),
                 active_requests, timeout,
                 sent \o send_get_request(chunk_hash, candidates[1]))

\* the for loop of schedule_downloads over active_downloads.items(): todo is
\* what is left of the items, download the download connections so far
RECURSIVE ScheduleLoop(_, _, _, _, _, _)
ScheduleLoop(todo, objs, download, active_requests, timeout, sent) ==
  IF todo = <<>> THEN [download |-> download, sent |-> sent]
  ELSE LET chunk_hash == Head(todo).key
           task == objs[Head(todo).val]
           candidates == get_download_candidates(active_requests, chunk_hash)
       IN IF DictHas(task.received_chunks, chunk_hash)
             \/ DictHas(download, chunk_hash)
             \/ candidates = <<>>
          THEN ScheduleLoop(Tail(todo), objs, download, active_requests, timeout, sent)
          ELSE ScheduleLoop(Tail(todo), objs,
                 create_download_connection(download, chunk_hash, candidates[1], timeout),
                 active_requests, timeout,
                 sent \o send_get_request(chunk_hash, candidates[1]))

\* ------------------------------------------------------------------- state

\* The addresses of the roster; Peers are the ones whose program runs here.
Addrs == {"A", "B", "C"}
Peers == {"A", "B"}
\* context.peers: the roster (nodes.map), and each peer's identity in it
Roster == <<[id |-> 1, addr |-> "A"], [id |-> 2, addr |-> "B"],
            [id |-> 3, addr |-> "C"]>>
Identity(p) == (CHOOSE i \in 1..Len(Roster) : Roster[i].addr = p)

\* Three chunk hashes: 20 raw bytes each, and the lowercase hex strings that
\* are the keys of has_chunks.
RawHash(k) == [i \in 1..HASH_LEN |-> (37 * k + 11 * i) % 256]
H1 == bytes_to_hex_string(RawHash(1))
H2 == bytes_to_hex_string(RawHash(2))
H3 == bytes_to_hex_string(RawHash(3))

\* A chunk of the full chunk size and a short one (the bytes of "abc").
FullChunk == [i \in 1..CHUNK_SIZE |-> i]
ShortChunk == <<97, 98, 99>>
\* The chunk store of the serving peer (the pickle that -c names).
ServerChunks == <<[key |-> H1, val |-> FullChunk], [key |-> H2, val |-> ShortChunk]>>

VARIABLES
  has_chunks,       \* context.has_chunks, per peer
  max_conn,         \* context.max_conn (-m), per peer
  timeout,          \* context.timeout (-t, seconds), per peer
  stdin,            \* the DOWNLOAD commands not yet read, per peer
  pc,               \* where each peer is in the while loop of peer_run
  active_requests,  \* HandshakeManager.active_requests
  hs_upload,        \* HandshakeManager.upload_connections
  rt_download,      \* ReliableTransfer.download_connections
  rt_upload,        \* ReliableTransfer.upload_connections
  task_objs,        \* the DownloadTask objects ever made, by identity
  download_tasks,   \* DownloadManager.download_tasks: output_file -> task
  active_downloads, \* DownloadManager.active_downloads: chunk_hash -> task
  last_cleanup_age, \* time.time() - last_cleanup_time of peer_run
  stdout,           \* the GOT lines printed, per peer
  files,            \* the output files written: output_file -> mapping
  net,              \* the datagrams in flight
  sent,             \* the datagrams the last step handed to sock.sendto
  last              \* the event the last step handled

vars == <<has_chunks, max_conn, timeout, stdin, pc, active_requests, hs_upload,
          rt_download, rt_upload, task_objs, download_tasks, active_downloads,
          last_cleanup_age, stdout, files, net, sent, last>>

config == <<has_chunks, max_conn, timeout>>
handshake == <<active_requests, hs_upload>>
transfer == <<rt_download, rt_upload>>
tasks == <<task_objs, download_tasks, active_downloads>>
output == <<stdout, files>>

NoEvent == [kind |-> "none", peer |-> "", from |-> "", pkt |-> build_denied_packet]
Event(kind, p, from_addr, pkt) ==
  [kind |-> kind, peer |-> p, from |-> from_addr, pkt |-> pkt]

\* The state of every peer after construction (DownloadManager.__init__ and
\* the first lines of peer_run), for the given configuration and input.
InitWith(chunks, limits, timeouts, commands) ==
  /\ has_chunks = chunks
  /\ max_conn = limits
  /\ timeout = timeouts
  /\ stdin = commands
  /\ pc = [p \in Peers |-> "select"]
  /\ active_requests = [p \in Peers |-> <<>>]
  /\ hs_upload = [p \in Peers |-> <<>>]
  /\ rt_download = [p \in Peers |-> <<>>]
  /\ rt_upload = [p \in Peers |-> <<>>]
  /\ task_objs = [p \in Peers |-> <<>>]
  /\ download_tasks = [p \in Peers |-> <<>>]
  /\ active_downloads = [p \in Peers |-> <<>>]
  /\ last_cleanup_age = [p \in Peers |-> 0]
  /\ stdout = [p \in Peers |-> <<>>]
  /\ files = [p \in Peers |-> <<>>]
  /\ net = {}
  /\ sent = [by |-> "", msgs |-> <<>>]
  /\ last = NoEvent

\* ----------------------------------------------------- download manager steps

\* save_to_file and the GOT line, once a chunk has completed its task:
\* w is [objs, files, stdout] of one peer
TaskAdd(w, task_id, chunk_hash, data) ==
  LET a == add_chunk(w.objs[task_id], chunk_hash, data)
      objs1 == [w.objs EXCEPT ![task_id] = a.task]
  IN IF a.ret /\ is_complete(a.task)
     THEN [objs |-> objs1,
           files |-> DictPut(w.files, a.task.output_file, a.task.received_chunks),
           stdout |-> Append(w.stdout, <<"GOT", a.task.output_file>>)]
     ELSE [objs |-> objs1, files |-> w.files, stdout |-> w.stdout]

\* the DATA case of handle_incoming_packet after handle_data_packet returned
\* ret, with download the download connections it left
DataCompleted(w, ret, download, active) ==
  IF ret # None /\ DictHas(active, ret[1]) /\ DictHas(download, ret[1])
     /\ is_chunk_complete(DictGet(download, ret[1]), CHUNK_SIZE)
  THEN TaskAdd(w, DictGet(active, ret[1]), ret[1],
               get_chunk_data(DictGet(download, ret[1])))
  ELSE w

\* the loop of DownloadManager.handle_timeouts over completed_chunks: download
\* is download_connections after cleanup_finished_connections
RECURSIVE TimeoutCompleted(_, _, _, _)
TimeoutCompleted(w, completed, download, active) ==
  IF completed = <<>> THEN w
  ELSE LET h == Head(completed)
       IN TimeoutCompleted(
            IF DictHas(active, h) /\ DictHas(download, h)
               /\ DictGet(download, h).state = "complete"
            THEN TaskAdd(w, DictGet(active, h), h, get_chunk_data(DictGet(download, h)))
            ELSE w,
            Tail(completed), download, active)

\* DownloadManager.handle_incoming_packet, for the datagram pkt_info that
\* peer p received from from_addr
handle_incoming_packet(p, pkt_info, from_addr) ==
  LET w == [objs |-> task_objs[p], files |-> files[p], stdout |-> stdout[p]]
      same == [download |-> rt_download[p], upload |-> rt_upload[p],
               hs |-> hs_upload[p], requests |-> active_requests[p],
               w |-> w, sent |-> <<>>]
      r == CASE pkt_info.pkt_type = WHOHAS ->
                  [same EXCEPT !.sent = handle_who_has_request(hs_upload[p],
                                          has_chunks[p], max_conn[p], pkt_info, from_addr)]
             [] pkt_info.pkt_type = IHAVE ->
                  LET reqs == handle_i_have_response(active_requests[p], pkt_info, from_addr)
                      sch == ScheduleLoop(active_downloads[p], task_objs[p],
                                          rt_download[p], reqs, timeout[p], <<>>)
                  IN [same EXCEPT !.requests = reqs, !.download = sch.download,
                                  !.sent = sch.sent]
             [] pkt_info.pkt_type = GET ->
                  LET g == handle_get_request(hs_upload[p], has_chunks[p], max_conn[p],
                                              pkt_info, from_addr)
                  IN IF g.ret = None THEN [same EXCEPT !.hs = g.upload]
                     ELSE LET up == create_upload_connection(rt_upload[p], from_addr,
                                       g.ret[1], has_chunks[p], timeout[p])
                              st == start_data_upload(up, from_addr, g.ret[1])
                          IN [same EXCEPT !.hs = g.upload, !.upload = st.upload,
                                          !.sent = st.sent]
             [] pkt_info.pkt_type = DATA ->
                  LET d == handle_data_packet(rt_download[p], pkt_info, from_addr)
                  IN [same EXCEPT !.download = d.download, !.sent = d.sent,
                                  !.w = DataCompleted(w, d.ret, d.download,
                                                      active_downloads[p])]
             [] pkt_info.pkt_type = ACK ->
                  LET a == handle_ack_packet(rt_upload[p], pkt_info, from_addr)
                  IN [same EXCEPT !.upload = a.upload, !.sent = a.sent]
             [] OTHER -> same
  IN /\ rt_download' = [rt_download EXCEPT ![p] = r.download]
     /\ rt_upload' = [rt_upload EXCEPT ![p] = r.upload]
     /\ hs_upload' = [hs_upload EXCEPT ![p] = r.hs]
     /\ active_requests' = [active_requests EXCEPT ![p] = r.requests]
     /\ task_objs' = [task_objs EXCEPT ![p] = r.w.objs]
     /\ files' = [files EXCEPT ![p] = r.w.files]
     /\ stdout' = [stdout EXCEPT ![p] = r.w.stdout]
     /\ sent' = [by |-> p, msgs |-> r.sent]
     /\ UNCHANGED <<download_tasks, active_downloads>>

\* DownloadManager.start_download, for the chunklist lines and output file of
\* a DOWNLOAD command
start_download(p, lines, output_file) ==
  LET needed_chunks == NeededChunks(lines, has_chunks[p])
      task_id == Len(task_objs[p]) + 1
      who == send_who_has_request(active_requests[p], needed_chunks, Roster, Identity(p))
  IN IF needed_chunks = <<>>
     THEN /\ stdout' = [stdout EXCEPT ![p] = Append(@, <<"GOT", output_file>>)]
          /\ sent' = [by |-> p, msgs |-> <<>>]
          /\ UNCHANGED <<task_objs, download_tasks, active_downloads, active_requests>>
     ELSE /\ task_objs' = [task_objs EXCEPT
                             ![p] = Append(@, DownloadTask(output_file, needed_chunks))]
          /\ download_tasks' = [download_tasks EXCEPT
                                  ![p] = DictPut(@, output_file, task_id)]
          /\ active_downloads' = [active_downloads EXCEPT
                                    ![p] = MapChunks(@, needed_chunks, task_id)]
          /\ active_requests' = [active_requests EXCEPT ![p] = who.requests]
          /\ sent' = [by |-> p, msgs |-> who.sent]
          /\ UNCHANGED stdout

\* DownloadManager.handle_timeouts: what it leaves of the connections, the
\* requests and the tasks of peer p, and the datagrams it sends
handle_timeouts(p) ==
  LET t == rt_handle_timeouts(rt_download[p], rt_upload[p])
      c == rt_cleanup_finished_connections(t.download, t.upload)
  IN [download |-> c.download, upload |-> c.upload,
      requests |-> cleanup_old_requests(active_requests[p], REQUEST_TIMEOUT),
      hs |-> hs_cleanup_finished_connections(hs_upload[p]),
      w |-> TimeoutCompleted(
              [objs |-> task_objs[p], files |-> files[p], stdout |-> stdout[p]],
              c.completed, c.download, active_downloads[p]),
      sent |-> t.sent]

\* cleanup_completed_tasks: drop the completed tasks and, for each, every
\* entry of active_downloads under one of its needed hashes
CompletedNeeded(objs, dtasks) ==
  UNION {objs[dtasks[i].val].needed_chunks :
           i \in {j \in 1..Len(dtasks) : objs[dtasks[j].val].completed}}

RECURSIVE DropKeys(_, _)
DropKeys(d, keys) ==
  IF d = <<>> THEN <<>>
  ELSE IF Head(d).key \in keys THEN DropKeys(Tail(d), keys)
  ELSE <<Head(d)>> \o DropKeys(Tail(d), keys)

RECURSIVE DropCompleted(_, _)
DropCompleted(dtasks, objs) ==
  IF dtasks = <<>> THEN <<>>
  ELSE IF objs[Head(dtasks).val].completed THEN DropCompleted(Tail(dtasks), objs)
  ELSE <<Head(dtasks)>> \o DropCompleted(Tail(dtasks), objs)

cleanup_completed_tasks(objs, dtasks, active) ==
  [download_tasks |-> DropCompleted(dtasks, objs),
   active_downloads |-> DropKeys(active, CompletedNeeded(objs, dtasks))]

\* ------------------------------------------------------------------ peer.py

\* What a step leaves alone besides what it names.
Frame(p, at) ==
  /\ pc' = [pc EXCEPT ![p] = at]
  /\ UNCHANGED config

\* After the socket the loop looks at stdin, which can be ready only while
\* commands are left.
AfterSelect(p) == IF stdin[p] = <<>> THEN "tasks" ELSE "input"

\* process_inbound_udp: the socket is ready and yields pkt_info from from_addr
process_inbound_udp(p, pkt_info, from_addr) ==
  /\ pc[p] = "select"
  /\ handle_incoming_packet(p, pkt_info, from_addr)
  /\ last' = Event("datagram", p, from_addr, pkt_info)
  /\ Frame(p, AfterSelect(p))
  /\ UNCHANGED <<stdin, last_cleanup_age>>

\* the socket is not ready in this round
NoDatagram(p) ==
  /\ pc[p] = "select"
  /\ sent' = [by |-> p, msgs |-> <<>>]
  /\ last' = Event("nothing", p, "", build_denied_packet)
  /\ Frame(p, AfterSelect(p))
  /\ UNCHANGED <<stdin, last_cleanup_age, handshake, transfer, tasks, output, net>>

\* process_user_input: a line "DOWNLOAD <chunklist> <output>" is ready; a
\* command is [lines, output_file], the chunklist already read
process_user_input(p) ==
  /\ pc[p] = "input"
  /\ stdin[p] # <<>>
  /\ start_download(p, Head(stdin[p]).lines, Head(stdin[p]).output_file)
  /\ stdin' = [stdin EXCEPT ![p] = Tail(@)]
  /\ last' = Event("command", p, "", build_denied_packet)
  /\ Frame(p, "tasks")
  /\ UNCHANGED <<last_cleanup_age, hs_upload, transfer, files>>

\* stdin is not ready in this round
NoInput(p) ==
  /\ pc[p] = "input"
  /\ sent' = [by |-> p, msgs |-> <<>>]
  /\ last' = Event("nothing", p, "", build_denied_packet)
  /\ Frame(p, "tasks")
  /\ UNCHANGED <<stdin, last_cleanup_age, handshake, transfer, tasks, output, net>>

\* The rest of a round of the while loop: handle_timeouts, then the cleanup
\* when more than cleanup_interval has passed, then schedule_downloads.
PeriodicTasks(p) ==
  LET t == handle_timeouts(p)
      due == last_cleanup_age[p] > CLEANUP_INTERVAL
      c == IF due
           THEN cleanup_completed_tasks(t.w.objs, download_tasks[p], active_downloads[p])
           ELSE [download_tasks |-> download_tasks[p],
                 active_downloads |-> active_downloads[p]]
      reqs == IF due THEN cleanup_old_requests(t.requests, REQUEST_TIMEOUT)
              ELSE t.requests
      sch == ScheduleLoop(c.active_downloads, t.w.objs, t.download, reqs,
                          timeout[p], <<>>)
  IN /\ pc[p] = "tasks"
     /\ rt_download' = [rt_download EXCEPT ![p] = sch.download]
     /\ rt_upload' = [rt_upload EXCEPT ![p] = t.upload]
     /\ hs_upload' = [hs_upload EXCEPT ![p] = t.hs]
     /\ active_requests' = [active_requests EXCEPT ![p] = reqs]
     /\ task_objs' = [task_objs EXCEPT ![p] = t.w.objs]
     /\ files' = [files EXCEPT ![p] = t.w.files]
     /\ stdout' = [stdout EXCEPT ![p] = t.w.stdout]
     /\ download_tasks' = [download_tasks EXCEPT ![p] = c.download_tasks]
     /\ active_downloads' = [active_downloads EXCEPT ![p] = c.active_downloads]
     /\ last_cleanup_age' = [last_cleanup_age EXCEPT ![p] = IF due THEN 0 ELSE @]
     /\ sent' = [by |-> p, msgs |-> t.sent \o sch.sent]
     /\ last' = Event("tasks", p, "", build_denied_packet)
     /\ Frame(p, "select")
     /\ UNCHANGED stdin

\* Time passes while a peer waits in select(): every timestamp grows older by
\* TIME_STEP. Ages saturate beyond what they are compared with: the timeout
\* interval of an upload is never re-estimated (handle_ack_packet looks for an
\* attribute packet_times that no Connection has), so it stays below AGE_CAP;
\* a download is timed against the timestamp 0.0. An RTT sample of a download
\* older than AGE_CAP counts as AGE_CAP.
OlderConn(c) ==
  [c EXCEPT !.last_send_age = IF @ = EPOCH_AGE THEN @ ELSE Min(@ + TIME_STEP, AGE_CAP),
            !.first_packet_age = IF c.has_first_packet_time
                                 THEN Min(@ + TIME_STEP, AGE_CAP) ELSE @]

OlderConns(conns) ==
  [i \in 1..Len(conns) |-> [conns[i] EXCEPT !.val = OlderConn(@)]]

OlderRequests(reqs) ==
  [i \in 1..Len(reqs) |->
     [reqs[i] EXCEPT !.val.request_age = IF @ > REQUEST_TIMEOUT THEN @ ELSE @ + TIME_STEP]]

TimePasses ==
  /\ \E p \in Peers : pc[p] = "select"
  /\ rt_download' = [p \in Peers |-> OlderConns(rt_download[p])]
  /\ rt_upload' = [p \in Peers |-> OlderConns(rt_upload[p])]
  /\ active_requests' = [p \in Peers |-> OlderRequests(active_requests[p])]
  /\ last_cleanup_age' = [p \in Peers |->
                            IF last_cleanup_age[p] > CLEANUP_INTERVAL
                            THEN last_cleanup_age[p]
                            ELSE last_cleanup_age[p] + TIME_STEP]
  /\ sent' = [by |-> "", msgs |-> <<>>]
  /\ last' = Event("time", "", "", build_denied_packet)
  /\ UNCHANGED <<config, stdin, pc, hs_upload, tasks, output, net>>

\* ------------------------------------------- a serving peer under any traffic

\* Peer A serves its chunk store.  The addresses B and C send it any WHOHAS
\* and GET of the sets below, in any order; B also sends it any ACK and DATA,
\* while C never acknowledges, so that an upload to C only times out.
Server == "A"
Clients == {"B", "C"}
Downloader == "B"

\* WHOHAS payloads: a held hash, one not held, both kinds together, and one
\* that is no list of hashes.  GET payloads: the held hashes, one not held and
\* one that is a byte short of a hash.
WhoHasPayloads ==
  {RawHash(1), RawHash(3), RawHash(3) \o RawHash(2), SubSeq(RawHash(1), 1, HASH_LEN - 1)}
GetPayloads ==
  {RawHash(1), RawHash(2), RawHash(3), SubSeq(RawHash(2), 1, HASH_LEN - 1)}
MaxAck == NumPackets(FullChunk) + MaxAckBeyond

Init ==
  \E m \in 1..MaxMaxConn :
     InitWith([p \in Peers |-> IF p = Server THEN ServerChunks ELSE <<>>],
              [p \in Peers |-> m], [p \in Peers |-> 0],
              [p \in Peers |-> <<>>])

EnvWhoHas ==
  \E from_addr \in Clients, payload \in WhoHasPayloads :
     /\ process_inbound_udp(Server, PacketInfo(WHOHAS, 0, 0, payload), from_addr)
     /\ UNCHANGED net

EnvGet ==
  \E from_addr \in Clients, payload \in GetPayloads :
     /\ process_inbound_udp(Server, PacketInfo(GET, 0, 0, payload), from_addr)
     /\ UNCHANGED net

EnvAck ==
  \E ack_num \in 0..MaxAck :
     /\ process_inbound_udp(Server, build_ack_packet(ack_num), Downloader)
     /\ UNCHANGED net

EnvData ==
  /\ process_inbound_udp(Server, build_data_packet(1, <<1>>), Downloader)
  /\ UNCHANGED net

Tick == PeriodicTasks(Server) /\ UNCHANGED net

Idle == NoDatagram(Server)

Next ==
  \/ EnvWhoHas
  \/ EnvGet
  \/ EnvAck
  \/ EnvData
  \/ Idle
  \/ Tick
  \/ TimePasses

Spec == Init /\ [][Next]_vars

\* ------------------------------------------------- properties of the server

\* The datagram the last step handled, when it handled one of this type.
Handled(pkt_type) == last.kind = "datagram" /\ last.pkt.pkt_type = pkt_type

\* C1: in every reachable state the handshake manager and the reliable
\* transfer layer each hold at most max_conn upload connections.
AdmissionBound ==
  \A p \in Peers :
     Len(hs_upload[p]) <= max_conn[p] /\ Len(rt_upload[p]) <= max_conn[p]

\* A GET for a held chunk was refused with both layers at the limit.
AdmissionBoundWitness ==
  /\ Handled(GET)
  /\ DictHas(has_chunks[Server], bytes_to_hex_string(last.pkt.payload))
  /\ ~DictHas(hs_upload[Server], <<last.from, bytes_to_hex_string(last.pkt.payload)>>)
  /\ Len(hs_upload[Server]) = max_conn[Server]
  /\ Len(rt_upload[Server]) = max_conn[Server]
  /\ sent.msgs = <<>>

\* C2: an upload connection is Complete only when its ack_num has reached
\* the number N of DATA packets its chunk was split into.  (Stated for the
\* connections that were acknowledged no packet they had not sent.)
CompleteOnlyWhenAllAcked ==
  \A p \in Peers : \A i \in 1..Len(rt_upload[p]) :
     LET c == rt_upload[p][i].val
     IN (c.state = "complete" /\ c.ack_num <= c.seq_num) =>
          c.ack_num >= NumPackets(DictGet(has_chunks[p], c.chunk_hash))

\* The connection a received ACK is matched to, before the step handles it.
AckTarget == rt_upload[Server][FirstTransferFrom(rt_upload[Server], last'.from)].val
AckTargetAfter == rt_upload'[Server][FirstTransferFrom(rt_upload[Server], last'.from)].val

\* C7: a duplicate ACK adds exactly one to duplicate_ack_count, and fast
\* retransmit fires on the third duplicate in a row and on no earlier one.
ThirdDuplicateRetransmits ==
  [][(/\ last'.kind = "datagram" /\ last'.pkt.pkt_type = ACK
      /\ HasTransferFrom(rt_upload[Server], last'.from)
      /\ last'.pkt.ack_num <= AckTarget.ack_num)
     => IF AckTarget.duplicate_ack_count = 2
        THEN AckTargetAfter.duplicate_ack_count = 0
        ELSE /\ AckTargetAfter.duplicate_ack_count = AckTarget.duplicate_ack_count + 1
             /\ sent'.msgs = <<>>]_vars

\* A WHOHAS that is a list of hashes arrived with the upload connections of
\* the handshake manager at the limit or not.
WhoHasHandled == Handled(WHOHAS) /\ ~BadHashPayload(last.pkt.payload)
AtLimit == Len(hs_upload[last.peer]) >= max_conn[last.peer]
RequestedHeld ==
  {h \in SeqToSet(extract_chunk_hashes(last.pkt.payload)) :
     \E i \in 1..Len(has_chunks[last.peer]) :
        has_chunks[last.peer][i].key = bytes_to_hex_string(h)}

\* C8: a WHOHAS received with the upload-connection count at max_conn or
\* above is answered with DENIED and never with IHAVE, whatever is held.
DeniedAtLimit ==
  (WhoHasHandled /\ AtLimit) =>
     /\ Len(sent.msgs) = 1
     /\ sent.msgs[1].pkt.pkt_type = DENIED
     /\ sent.msgs[1].to = last.from

DeniedAtLimitWitness ==
  /\ WhoHasHandled /\ AtLimit /\ RequestedHeld # {}
  /\ sent.msgs = <<Sent(build_denied_packet, last.from)>>

\* C9: a well-formed WHOHAS gets exactly one reply, to its sender: below the
\* limit an IHAVE with exactly the requested hashes that are held when there
\* are any, and a DENIED when there are none.
OneReplyPerWhoHas ==
  WhoHasHandled =>
     /\ Len(sent.msgs) = 1
     /\ sent.msgs[1].to = last.from
     /\ ~AtLimit =>
          IF RequestedHeld # {}
          THEN /\ sent.msgs[1].pkt.pkt_type = IHAVE
               /\ ~BadHashPayload(sent.msgs[1].pkt.payload)
               /\ SeqToSet(extract_chunk_hashes(sent.msgs[1].pkt.payload)) = RequestedHeld
               /\ Len(extract_chunk_hashes(sent.msgs[1].pkt.payload))
                    = Cardinality(RequestedHeld)
          ELSE sent.msgs[1].pkt = build_denied_packet

\* An IHAVE that leaves out a requested hash, and a DENIED below the limit.
OneReplyPerWhoHasWitness ==
  /\ WhoHasHandled /\ ~AtLimit
  /\ sent.msgs[1].pkt.pkt_type = IHAVE
  /\ Len(sent.msgs[1].pkt.payload) < Len(last.pkt.payload)

\* The key (peer, hash) of the GET a step handles, and whether the GET is one
\* of those to reject, judged in the state before the step.
GetKey == <<last'.from, bytes_to_hex_string(last'.pkt.payload)>>
GetToReject ==
  \/ Len(last'.pkt.payload) # HASH_LEN
  \/ ~DictHas(has_chunks[Server], GetKey[2])
  \/ DictHas(hs_upload[Server], GetKey)
  \/ Len(hs_upload[Server]) >= max_conn[Server]

\* C11: a GET whose payload is not 20 bytes, whose hash is not held, whose
\* (peer, hash) already has an upload connection, or that arrives at the
\* connection limit sends nothing and creates no upload connection; any other
\* GET creates exactly one upload connection, in state Transfer, under
\* (peer, hash).
GetAdmission ==
  [][(last'.kind = "datagram" /\ last'.pkt.pkt_type = GET)
     => IF GetToReject
        THEN /\ sent'.msgs = <<>>
             /\ hs_upload' = hs_upload
             /\ rt_upload' = rt_upload
        ELSE /\ Len(hs_upload'[Server]) = Len(hs_upload[Server]) + 1
             /\ SubSeq(hs_upload'[Server], 1, Len(hs_upload[Server])) = hs_upload[Server]
             /\ DictHas(hs_upload'[Server], GetKey)
             /\ DictGet(hs_upload'[Server], GetKey).state = "transfer"
             /\ DictGet(hs_upload'[Server], GetKey).chunk_hash = GetKey[2]
             /\ DictGet(hs_upload'[Server], GetKey).peer_addr = GetKey[1]
             /\ Len(rt_upload'[Server]) = Len(rt_upload[Server]) + 1
             /\ DictHas(rt_upload'[Server], GetKey)
             /\ DictGet(rt_upload'[Server], GetKey).state = "transfer"]_vars

\* A second GET was admitted beside an open upload, and DATA went out.
GetAdmissionWitness ==
  /\ Handled(GET)
  /\ Len(hs_upload[Server]) = 2
  /\ hs_upload[Server][2].key = <<last.from, bytes_to_hex_string(last.pkt.payload)>>
  /\ hs_upload[Server][2].val.state = "transfer"
  /\ sent.msgs # <<>>
  /\ sent.msgs[1].pkt.pkt_type = DATA

\* The server handles an ACK that is matched to an upload connection: a new
\* one (above the connection's ack_num) or a duplicate.
AckMatched ==
  /\ last'.kind = "datagram" /\ last'.pkt.pkt_type = ACK
  /\ HasTransferFrom(rt_upload[Server], last'.from)
NewAck == AckMatched /\ last'.pkt.ack_num > AckTarget.ack_num
DuplicateAck == AckMatched /\ last'.pkt.ack_num <= AckTarget.ack_num

\* cwnd' = cwnd + 1 below ssthresh and cwnd' = cwnd + 1/cwnd from ssthresh on,
\* for the fractions before and after
RenoStep(before, after, ssthresh) ==
  IF before.n < ssthresh * before.d
  THEN after.n * before.d = (before.n + before.d) * after.d
  ELSE after.n * before.n * before.d
         = (before.n * before.n + before.d * before.d) * after.d

\* C16 as stated: a new ACK updates cwnd once by the Reno rule, however many
\* packets it covers, and a duplicate ACK leaves cwnd unchanged.
RenoOnEveryAck ==
  [][/\ NewAck => /\ RenoStep(AckTarget.cwnd, AckTargetAfter.cwnd, AckTarget.ssthresh)
                  /\ AckTargetAfter.ssthresh = AckTarget.ssthresh
     /\ DuplicateAck => AckTargetAfter.cwnd = AckTarget.cwnd]_vars

\* C16, amended: a new ACK updates cwnd once by the Reno rule, however many
\* packets it covers; a duplicate ACK leaves cwnd unchanged unless it is the
\* one that fires fast retransmit, which resets the duplicate count.
RenoOnNewAck ==
  [][/\ NewAck => /\ RenoStep(AckTarget.cwnd, AckTargetAfter.cwnd, AckTarget.ssthresh)
                  /\ AckTargetAfter.ssthresh = AckTarget.ssthresh
     /\ (DuplicateAck /\ AckTargetAfter.duplicate_ack_count # 0)
          => /\ AckTargetAfter.cwnd = AckTarget.cwnd
             /\ AckTargetAfter.ssthresh = AckTarget.ssthresh]_vars

\* A new ACK arrived in congestion avoidance: cwnd went from 2 to 2 + 1/2.
RenoOnNewAckWitness ==
  /\ Handled(ACK)
  /\ \E i \in 1..Len(rt_upload[Server]) :
        LET c == rt_upload[Server][i].val
        IN /\ c.peer_addr = last.from
           /\ c.ack_num = last.pkt.ack_num
           /\ c.ssthresh = 2
           /\ c.cwnd = [n |-> 5, d |-> 2]

\* ------------------------------------------ a downloading peer and its sources

\* Peer B holds the chunk H2 and reads one DOWNLOAD command.  The addresses A
\* and C answer with any IHAVE, DENIED and DATA datagram of the sets below, in
\* any order, with duplicates.
Client == "B"
Sources == {"A", "C"}
ClientChunks == <<[key |-> H2, val |-> ShortChunk]>>

\* A chunklist line "<index> <hash>", and a comment line
Line(index, chunk_hash) == <<<<index>>, chunk_hash>>
CommentLine == <<<<"#">>, <<"c">>>>

\* DOWNLOAD commands: a chunklist naming H1 once; one with a comment line, H1
\* on two lines and the held H2; and one naming nothing but the held H2.
Commands ==
  {[lines |-> <<Line("0", H1)>>, output_file |-> "out"],
   [lines |-> <<CommentLine, Line("0", H2)>>, output_file |-> "out"],
   [lines |-> <<CommentLine, Line("0", H1), Line("1", H2), Line("2", H1)>>,
    output_file |-> "out"]}

IHavePayloads == {RawHash(1), RawHash(3)}
\* the DATA packets of the chunk H1, as its holder cuts them
DataSeqs == 1..NumPackets(FullChunk)
ChunkPacket(seq_num) == build_data_packet(seq_num, PacketSlice(FullChunk, seq_num - 1))

InitDownload ==
  \E command \in Commands :
     InitWith([p \in Peers |-> IF p = Client THEN ClientChunks ELSE <<>>],
              [p \in Peers |-> 1], [p \in Peers |-> 0],
              [p \in Peers |-> IF p = Client THEN <<command>> ELSE <<>>])

UserDownload == process_user_input(Client) /\ UNCHANGED net

SrcIHave ==
  \E from_addr \in Sources, payload \in IHavePayloads :
     /\ process_inbound_udp(Client, PacketInfo(IHAVE, 0, 0, payload), from_addr)
     /\ UNCHANGED net

SrcDenied ==
  \E from_addr \in Sources :
     /\ process_inbound_udp(Client, build_denied_packet, from_addr)
     /\ UNCHANGED net

SrcData ==
  \E from_addr \in Sources, seq_num \in DataSeqs :
     /\ process_inbound_udp(Client, ChunkPacket(seq_num), from_addr)
     /\ UNCHANGED net

ClientIdle ==
  \/ NoDatagram(Client)
  \/ NoInput(Client)

ClientTick == PeriodicTasks(Client) /\ UNCHANGED net

NextDownload ==
  \/ UserDownload
  \/ SrcIHave
  \/ SrcDenied
  \/ SrcData
  \/ ClientIdle
  \/ ClientTick
  \/ TimePasses

SpecDownload == InitDownload /\ [][NextDownload]_vars

\* --------------------------------------------- properties of the downloader

\* The packets of H1, in sequence-number order, up to packet k.
PayloadsUpTo(k) == [j \in 1..k |-> PacketSlice(FullChunk, j - 1)]
\* The longest run 1..k of sequence numbers a connection has received.
ContiguousPrefix(c) ==
  CHOOSE k \in 0..NumPackets(FullChunk) :
     /\ 1..k \subseteq DOMAIN c.recv_buffer
     /\ k = NumPackets(FullChunk) \/ (k + 1) \notin DOMAIN c.recv_buffer

\* C4: whatever the order and the duplicates in which a download connection
\* received DATA packets, ack_num is the end of the contiguous run received
\* and chunk_data the concatenation of that run's payloads in order; with
\* all of 1..N received, chunk_data is the chunk and ack_num is N.
InOrderAssembly ==
  \A i \in 1..Len(rt_download[Client]) :
     LET c == rt_download[Client][i].val
     IN /\ c.ack_num = ContiguousPrefix(c)
        /\ c.chunk_data = Join(PayloadsUpTo(c.ack_num))
        /\ (DOMAIN c.recv_buffer = DataSeqs) =>
             c.chunk_data = FullChunk /\ c.ack_num = NumPackets(FullChunk)

\* Packet 1 came last, after 2..N had been buffered out of order.
InOrderAssemblyWitness ==
  /\ Handled(DATA) /\ last.pkt.seq_num = 1
  /\ \E i \in 1..Len(rt_download[Client]) :
        LET c == rt_download[Client][i].val
        IN /\ c.peer_addr = last.from
           /\ DOMAIN c.recv_buffer = DataSeqs
           /\ c.ack_num = NumPackets(FullChunk)
           /\ c.chunk_data = FullChunk

\* The peer a chunk is or was downloaded from: the peer of its download
\* connection, or, for a chunk a task has received, the first responder of
\* its request (the candidate schedule_downloads picked).
Serving(from_addr) ==
  \/ \E i \in 1..Len(rt_download[Client]) :
        rt_download[Client][i].val.peer_addr = from_addr
  \/ \E t \in 1..Len(task_objs[Client]), r \in 1..Len(active_requests[Client]) :
        /\ DictHas(task_objs[Client][t].received_chunks, active_requests[Client][r].key)
        /\ active_requests[Client][r].val.peer_responses # <<>>
        /\ active_requests[Client][r].val.peer_responses[1].key = from_addr

\* C5: every DATA received from the serving peer of a download, also one that
\* arrives after the last packet, is answered with exactly one ACK, to its
\* sender.
AckForEveryData ==
  (Handled(DATA) /\ last.peer = Client /\ Serving(last.from)) =>
     /\ Len(sent.msgs) = 1
     /\ sent.msgs[1].pkt.pkt_type = ACK
     /\ sent.msgs[1].to = last.from

\* C10: a DOWNLOAD command with hashes left to fetch sends one WHOHAS to each
\* roster peer but self, and the WHOHAS carries each needed hash once.
BroadcastOncePerHash ==
  (last.kind = "command" /\ task_objs[Client] # <<>>) =>
     /\ Len(sent.msgs) = Len(Roster) - 1
     /\ \A a \in Addrs \ {Client} :
          Cardinality({i \in 1..Len(sent.msgs) : sent.msgs[i].to = a}) = 1
     /\ \A i \in 1..Len(sent.msgs) :
          LET hashes == HashStrings(extract_chunk_hashes(sent.msgs[i].pkt.payload))
          IN /\ sent.msgs[i].pkt.pkt_type = WHOHAS
             /\ SeqToSet(hashes) = task_objs[Client][1].needed_chunks
             /\ Len(hashes) = Cardinality(task_objs[Client][1].needed_chunks)

\* The chunklist of the command the client reads next names held hashes only.
AllHeld ==
  /\ stdin[Client] # <<>>
  /\ \A i \in 1..Len(Head(stdin[Client]).lines) :
        LET line == Head(stdin[Client]).lines[i]
        IN IsEntryLine(line) => DictHas(has_chunks[Client], line[2])

\* C13: a DOWNLOAD command whose chunklist hashes are all held prints one GOT
\* line at once, sends no datagram, and registers no task, no reverse-index
\* entry and no request.
NothingToDownload ==
  [][(last'.kind = "command" /\ last'.peer = Client /\ AllHeld)
     => /\ stdout'[Client] = Append(stdout[Client], <<"GOT", Head(stdin[Client]).output_file>>)
        /\ sent'.msgs = <<>>
        /\ UNCHANGED <<task_objs, download_tasks, active_downloads, active_requests,
                       rt_download, files>>]_vars

\* The command naming only the held H2 was read: GOT is out and no task exists.
NothingToDownloadWitness ==
  /\ last.kind = "command" /\ last.peer = Client
  /\ stdout[Client] = <<<<"GOT", "out">>>>
  /\ sent.msgs = <<>>
  /\ task_objs[Client] = <<>> /\ active_downloads[Client] = <<>>

\* -------------------------------------------------- a task of two chunks

\* Peer B reads "DOWNLOAD" for the chunks H1 and H3.  Any source answers with
\* an IHAVE for both, and sends the DATA packets of a full chunk in any order.
InitTask ==
  InitWith([p \in Peers |-> IF p = Client THEN ClientChunks ELSE <<>>],
           [p \in Peers |-> 1], [p \in Peers |-> 0],
           [p \in Peers |-> IF p = Client
                            THEN <<[lines |-> <<Line("0", H1), Line("1", H3)>>,
                                    output_file |-> "out"]>>
                            ELSE <<>>])

TaskIHave ==
  \E from_addr \in Sources :
     /\ process_inbound_udp(Client, build_i_have_packet(<<RawHash(1), RawHash(3)>>),
                            from_addr)
     /\ UNCHANGED net

NextTask ==
  \/ UserDownload
  \/ TaskIHave
  \/ SrcData
  \/ ClientIdle
  \/ ClientTick
  \/ TimePasses

SpecTask == InitTask /\ [][NextTask]_vars

\* the keys of a dictionary, as a set
KeySet(d) == {d[i].key : i \in 1..Len(d)}

\* C14: the chunks a task has received are among its needed ones, each with the
\* bytes its download connection delivered; the output file is written only
\* once all needed chunks are received, and the mapping saved then has
\* exactly the needed hashes as keys, each with the bytes received for it.
SavedMappingIsNeeded ==
  [][\A t \in 1..Len(task_objs'[Client]) :
        LET task == task_objs'[Client][t]
            before == IF t <= Len(task_objs[Client])
                      THEN KeySet(task_objs[Client][t].received_chunks) ELSE {}
        IN /\ KeySet(task.received_chunks) \subseteq task.needed_chunks
           /\ \A h \in KeySet(task.received_chunks) \ before :
                 /\ DictHas(rt_download'[Client], h)
                 /\ DictGet(task.received_chunks, h)
                      = DictGet(rt_download'[Client], h).chunk_data
           /\ KeySet(task.received_chunks) # task.needed_chunks
                 => ~DictHas(files'[Client], task.output_file)
           /\ DictHas(files'[Client], task.output_file)
                 => /\ DictGet(files'[Client], task.output_file) = task.received_chunks
                    /\ Len(task.received_chunks) = Cardinality(task.needed_chunks)]_vars

\* The output file of the task of two chunks is written, with both.
SavedMappingIsNeededWitness ==
  /\ DictHas(files[Client], "out")
  /\ KeySet(DictGet(files[Client], "out")) = {H1, H3}
  /\ task_objs[Client][1].needed_chunks = {H1, H3}

\* C15: a task's GOT line is printed at most once, and only by a step that
\* leaves the task with all its needed chunks received; DATA that is
\* duplicate or late prints no second one.
GotAtMostOnce ==
  [][/\ Len(stdout'[Client]) <= Len(task_objs'[Client])
     /\ stdout'[Client] # stdout[Client]
          => \E t \in 1..Len(task_objs'[Client]) :
                LET task == task_objs'[Client][t]
                IN /\ stdout'[Client] = Append(stdout[Client], <<"GOT", task.output_file>>)
                   /\ KeySet(task.received_chunks) = task.needed_chunks
                   /\ \A i \in 1..Len(stdout[Client]) :
                         stdout[Client][i] # <<"GOT", task.output_file>>]_vars

\* GOT is out, the connections are reaped, and one more DATA was handled.
GotAtMostOnceWitness ==
  /\ Handled(DATA) /\ last.peer = Client
  /\ stdout[Client] = <<<<"GOT", "out">>>>
  /\ rt_download[Client] = <<>>
  /\ task_objs[Client][1].completed

\* ------------------------------------------- two peers over a lossy network

\* Peer A holds the chunks; peer B reads "DOWNLOAD" for the chunk H1.  Their
\* datagrams travel through net, which delivers them in any order and may
\* lose any of them; a datagram to an address where no peer runs is gone.
Uploader == "A"
Wire(s) ==
  {[to |-> s.msgs[i].to, from |-> s.by, pkt |-> s.msgs[i].pkt] :
     i \in {j \in 1..Len(s.msgs) : s.msgs[j].to \in Peers}}
\* the network after the datagrams of s were handed to it
Carry(flying, s) ==
  IF Cardinality(flying \cup Wire(s)) <= MaxInFlight
  THEN flying \cup Wire(s) ELSE flying

InitNet ==
  InitWith([p \in Peers |-> IF p = Uploader THEN ServerChunks ELSE <<>>],
           [p \in Peers |-> 1], [p \in Peers |-> 0],
           [p \in Peers |-> IF p = Client
                            THEN <<[lines |-> <<Line("0", H1)>>, output_file |-> "out"]>>
                            ELSE <<>>])

NetReceive ==
  \E d \in net :
     /\ process_inbound_udp(d.to, d.pkt, d.from)
     /\ net' = Carry(net \ {d}, sent')

NetLose ==
  \E d \in net :
     /\ net' = net \ {d}
     /\ sent' = [by |-> "", msgs |-> <<>>]
     /\ last' = Event("lost", "", "", build_denied_packet)
     /\ UNCHANGED <<config, stdin, pc, handshake, transfer, tasks, output,
                    last_cleanup_age>>

NetInput ==
  /\ process_user_input(Client)
  /\ net' = Carry(net, sent')

NetIdle == \E p \in Peers : NoDatagram(p) \/ NoInput(p)

NetTick ==
  \E p \in Peers :
     /\ PeriodicTasks(p)
     /\ net' = Carry(net, sent')

NextNet ==
  \/ NetReceive
  \/ NetLose
  \/ NetInput
  \/ NetIdle
  \/ NetTick
  \/ TimePasses

SpecNet == InitNet /\ [][NextNet]_vars

\* ------------------------------------------------ properties of the transfer

\* C3: over the lossy network the upload of an N-packet chunk ends Complete
\* with the uploader's ack_num at N and the matching download holding the
\* whole chunk.
LossyTransferCompletes ==
  \A i \in 1..Len(rt_upload[Uploader]) :
     LET c == rt_upload[Uploader][i].val
     IN c.state = "complete" =>
          /\ c.ack_num = NumPackets(DictGet(has_chunks[Uploader], c.chunk_hash))
          /\ \E t \in 1..Len(task_objs[c.peer_addr]) :
                DictHas(task_objs[c.peer_addr][t].received_chunks, c.chunk_hash)

\* the ack_num of every connection that a step keeps does not go down
KeepsAckNum(before, after) ==
  \A i \in 1..Len(before), j \in 1..Len(after) :
     after[j].key = before[i].key => after[j].val.ack_num >= before[i].val.ack_num

\* C6: no DATA, no ACK (duplicate, stale or reordered) and no timeout tick
\* makes the ack_num of a download or of an upload connection decrease.
AckNumNeverDecreases ==
  [][\A p \in Peers : /\ KeepsAckNum(rt_download[p], rt_download'[p])
                      /\ KeepsAckNum(rt_upload[p], rt_upload'[p])]_vars

\* The uploader handled an ACK older than what it had been acknowledged.
AckNumNeverDecreasesWitness ==
  /\ Handled(ACK) /\ last.peer = Uploader
  /\ \E i \in 1..Len(rt_upload[Uploader]) :
        LET c == rt_upload[Uploader][i].val
        IN /\ c.peer_addr = last.from /\ c.state = "transfer"
           /\ c.ack_num > last.pkt.ack_num
           /\ c.duplicate_ack_count > 0

\* ------------------------------------------- two peers over a lossless network

\* Peer B reads "DOWNLOAD" for the chunk H3 alone, which peer A holds: a chunk
\* shorter than the chunk size that fits one DATA packet.
\* No datagram is lost or held back: what was sent to a running peer is in its
\* socket when the peer next selects, and the peer reads one datagram per
\* round, in any order.
OnePacketChunk == SubSeq(ShortChunk, 1, Min(Len(ShortChunk), MAX_PAYLOAD_SIZE))
TrivialChunks == <<[key |-> H3, val |-> OnePacketChunk]>>

InitTrivial ==
  InitWith([p \in Peers |-> IF p = Uploader THEN TrivialChunks ELSE <<>>],
           [p \in Peers |-> 1], [p \in Peers |-> 0],
           [p \in Peers |-> IF p = Client
                            THEN <<[lines |-> <<Line("0", H3)>>, output_file |-> "out"]>>
                            ELSE <<>>])

Deliver(p) ==
  \E d \in net :
     /\ d.to = p
     /\ process_inbound_udp(p, d.pkt, d.from)
     /\ net' = (net \ {d}) \cup Wire(sent')

TrivialIdle(p) ==
  /\ \A d \in net : d.to # p
  /\ NoDatagram(p)

TrivialInput(p) ==
  /\ process_user_input(p)
  /\ net' = net \cup Wire(sent')

TrivialTick(p) ==
  /\ PeriodicTasks(p)
  /\ net' = net \cup Wire(sent')

\* one step of the while loop of peer p
TrivialStep(p) ==
  \/ Deliver(p)
  \/ TrivialIdle(p)
  \/ TrivialInput(p)
  \/ TrivialTick(p)

NextTrivial ==
  \/ \E p \in Peers : TrivialStep(p)
  \/ TimePasses

\* Time keeps passing, and the while loop of each peer keeps turning: a step
\* of the loop is always possible and moves pc, so that weak fairness of
\* TrivialStep(p) is that pc[p] is at "select" and at "tasks" again and again.
SpecTrivial ==
  /\ InitTrivial
  /\ [][NextTrivial]_vars
  /\ WF_vars(TimePasses)
  /\ \A p \in Peers : []<>(pc[p] = "select") /\ []<>(pc[p] = "tasks")

\* C12: with no loss, the download of a task whose only chunk is shorter than
\* the chunk size ends: the requester prints its one GOT line and writes the
\* chunk to the output file.
TrivialDownloadCompletes ==
  <>(/\ stdout[Client] = <<<<"GOT", "out">>>>
     /\ DictHas(files[Client], "out"))

\* ------------------------------------------------- a window that has grown
\* Peer A uploads a chunk of WindowPackets packets to B, so that its window
\* can grow past 2 * 2 before a loss, while it downloads H3 from C, which
\* never sends DATA. The ACKs stop once the window's exact fraction has a
\* denominator above MaxDenominator.

LongChunk == [i \in 1..(WindowPackets * MAX_PAYLOAD_SIZE - 1) |-> i % 256]
WindowChunks == <<[key |-> H1, val |-> LongChunk]>>
WindowCommand == [lines |-> <<Line("0", H3)>>, output_file |-> "out"]

InitWindow ==
  InitWith([p \in Peers |-> IF p = Server THEN WindowChunks ELSE <<>>],
           [p \in Peers |-> 1], [p \in Peers |-> 0],
           [p \in Peers |-> IF p = Server THEN <<WindowCommand>> ELSE <<>>])

WindowDownload == process_user_input(Server) /\ UNCHANGED net

WindowIHave ==
  /\ process_inbound_udp(Server, build_i_have_packet(<<RawHash(3)>>), "C")
  /\ UNCHANGED net

WindowGet ==
  /\ process_inbound_udp(Server, build_get_packet(RawHash(1)), Downloader)
  /\ UNCHANGED net

WindowAck ==
  \E ack_num \in 0..WindowPackets :
     /\ \A i \in 1..Len(rt_upload[Server]) :
           rt_upload[Server][i].val.cwnd.d <= MaxDenominator
     /\ process_inbound_udp(Server, build_ack_packet(ack_num), Downloader)
     /\ UNCHANGED net

WindowIdle ==
  \/ NoDatagram(Server)
  \/ NoInput(Server)

NextWindow ==
  \/ WindowDownload
  \/ WindowIHave
  \/ WindowGet
  \/ WindowAck
  \/ WindowIdle
  \/ Tick
  \/ TimePasses

SpecWindow == InitWindow /\ [][NextWindow]_vars

\* the connection under a key, and the connections a round of handle_timeouts
\* finds timed out
ConnOf(conns, key) == conns[CHOOSE i \in 1..Len(conns) : conns[i].key = key].val
TimedOut(c) == is_active(c) /\ should_retransmit(c)

\* ssthresh' = max(floor(cwnd / 2), 2) from the cwnd before, and cwnd' = 1
LossStep(before, after) ==
  /\ after.cwnd = [n |-> 1, d |-> 1]
  /\ after.ssthresh = Max(before.cwnd.n \div (2 * before.cwnd.d), 2)

TimeoutStep(before, after) ==
  \A i \in 1..Len(before) :
     TimedOut(before[i].val)
       => /\ \E j \in 1..Len(after) : after[j].key = before[i].key
          /\ LossStep(before[i].val, ConnOf(after, before[i].key))

\* the duplicate ACK that fires fast retransmit resets the duplicate count
FastRetransmit == DuplicateAck /\ AckTargetAfter.duplicate_ack_count = 0

\* C17: every loss event (a timeout of an upload, a timeout of a download, a
\* fast retransmit) sets ssthresh to max(floor(cwnd / 2), 2), computed from the
\* cwnd before the event, and then cwnd to 1.
LossHalvesWindow ==
  [][/\ \A p \in Peers :
          (last'.kind = "tasks" /\ last'.peer = p)
            => /\ TimeoutStep(rt_download[p], rt_download'[p])
               /\ TimeoutStep(rt_upload[p], rt_upload'[p])
     /\ FastRetransmit => LossStep(AckTarget, AckTargetAfter)]_vars

\* A round of periodic tasks has just timed out an upload whose window had
\* reached 6 (ssthresh 3 now) and a download (ssthresh 2 now).
LossHalvesWindowWitness ==
  /\ last.kind = "tasks"
  /\ \E i \in 1..Len(rt_upload[Server]) :
        /\ rt_upload[Server][i].val.ssthresh = 3
        /\ rt_upload[Server][i].val.cwnd = [n |-> 1, d |-> 1]
        /\ rt_upload[Server][i].val.last_send_age = 0
  /\ \E i \in 1..Len(rt_download[Server]) :
        /\ rt_download[Server][i].val.ssthresh = 2
        /\ rt_download[Server][i].val.cwnd = [n |-> 1, d |-> 1]

\* every connection a peer has, downloads and uploads
AllConnections ==
  UNION {{rt_download[p][i].val : i \in 1..Len(rt_download[p])}
           \cup {rt_upload[p][i].val : i \in 1..Len(rt_upload[p])} : p \in Peers}

\* w is the largest integer that is at most the fraction f
IsFloorOf(w, f) == w * f.d <= f.n /\ f.n < (w + 1) * f.d

\* C18: in every reachable state of every connection, cwnd >= 1 and
\* ssthresh >= 2, and get_send_window() is max(1, floor(cwnd)).
WindowBounds ==
  \A c \in AllConnections :
     /\ c.cwnd.n >= c.cwnd.d
     /\ c.ssthresh >= 2
     /\ get_send_window(c) >= 1
     /\ IsFloorOf(get_send_window(c), c.cwnd) \/ c.cwnd.n < c.cwnd.d

\* After a loss and four new ACKs an upload is in congestion avoidance with
\* cwnd = 941/290, a send window of 3, next to a download that timed out.
WindowBoundsWitness ==
  /\ \E i \in 1..Len(rt_upload[Server]) :
        /\ rt_upload[Server][i].val.cwnd = [n |-> 941, d |-> 290]
        /\ rt_upload[Server][i].val.ssthresh = 2
        /\ get_send_window(rt_upload[Server][i].val) = 3
  /\ \E i \in 1..Len(rt_download[Server]) :
        rt_download[Server][i].val.ssthresh = 2

\* ------------------------------------------------------------ the wire format
\* packet.py at the level of bytes. The builders above give the fields of a
\* message; Packed is the datagram that the source's builder returns for them,
\* and parse_packet is what process_inbound_udp makes of a datagram received.

\* struct.pack of socket.htons(v) as "H" and of socket.htonl(v) as "I": on a
\* host of either byte order the bytes of v, most significant first
U16(v) == <<(v \div 256) % 256, v % 256>>
U32(v) == <<(v \div 16777216) % 256, (v \div 65536) % 256, (v \div 256) % 256, v % 256>>
\* socket.ntohs and socket.ntohl of what struct.unpack reads
FromU16(b) == 256 * b[1] + b[2]
FromU32(b) == ((256 * b[1] + b[2]) * 256 + b[3]) * 256 + b[4]
\* what struct.unpack reads from network-order bytes on a little-endian host
\* when the conversion is left out
HostU32(b) == ((256 * b[4] + b[3]) * 256 + b[2]) * 256 + b[1]

\* struct.pack(HEADER_FMT, type, header_len, htons(pkt_len), htonl(seq_num),
\* htonl(ack_num)): "BBHII" has no padding, 12 bytes
struct_pack(pkt_type, header_len, pkt_len, seq_num, ack_num) ==
  <<pkt_type, header_len>> \o U16(pkt_len) \o U32(seq_num) \o U32(ack_num)

\* header + payload, as every builder returns it
Packed(pkt_info) ==
  struct_pack(pkt_info.pkt_type, HEADER_LEN, HEADER_LEN + Len(pkt_info.payload),
              pkt_info.seq_num, pkt_info.ack_num) \o pkt_info.payload

\* the ValueError of the builders
WhoHasRaises(chunk_hashes) == chunk_hashes = <<>>
GetRaises(chunk_hash) == Len(chunk_hash) # HASH_LEN
DataRaises(data) == Len(data) > MAX_PAYLOAD_SIZE

Parsed(error, pkt_type, header_len, pkt_len, seq_num, ack_num, payload) ==
  [error |-> error, pkt_type |-> pkt_type, header_len |-> header_len,
   pkt_len |-> pkt_len, seq_num |-> seq_num, ack_num |-> ack_num,
   payload |-> payload]

\* parse_packet that reads seq_num and ack_num without ntohl
ParseInHostOrder(packet) ==
  IF Len(packet) < HEADER_LEN
  THEN Parsed("Packet too short", 0, 0, 0, 0, 0, <<>>)
  ELSE IF Len(packet) # FromU16(SubSeq(packet, 3, 4))
  THEN Parsed("Packet length mismatch", 0, 0, 0, 0, 0, <<>>)
  ELSE Parsed("", packet[1], packet[2], FromU16(SubSeq(packet, 3, 4)),
              HostU32(SubSeq(packet, 5, 8)), HostU32(SubSeq(packet, 9, 12)),
              IF packet[2] < Len(packet)
              THEN SubSeq(packet, packet[2] + 1, Len(packet)) ELSE <<>>)

\* parse_packet without the validation of the packet length
ParseAnyLength(packet) ==
  IF Len(packet) < HEADER_LEN
  THEN Parsed("Packet too short", 0, 0, 0, 0, 0, <<>>)
  ELSE Parsed("", packet[1], packet[2], FromU16(SubSeq(packet, 3, 4)),
              FromU32(SubSeq(packet, 5, 8)), FromU32(SubSeq(packet, 9, 12)),
              IF packet[2] < Len(packet)
              THEN SubSeq(packet, packet[2] + 1, Len(packet)) ELSE <<>>)

\* parse_packet: the ValueError it raises ("" if none) and the PacketInfo
parse_packet(packet) ==
  IF Len(packet) < HEADER_LEN
  THEN Parsed("Packet too short", 0, 0, 0, 0, 0, <<>>)
  ELSE IF Len(packet) # FromU16(SubSeq(packet, 3, 4))
  THEN Parsed("Packet length mismatch", 0, 0, 0, 0, 0, <<>>)
  ELSE Parsed("", packet[1], packet[2], FromU16(SubSeq(packet, 3, 4)),
              FromU32(SubSeq(packet, 5, 8)), FromU32(SubSeq(packet, 9, 12)),
              IF packet[2] < Len(packet)
              THEN SubSeq(packet, packet[2] + 1, Len(packet)) ELSE <<>>)

\* What the receiving side reports of a datagram: the ValueError of
\* parse_packet, that of extract_chunk_hashes in the WHOHAS and IHAVE
\* handlers, the refusal of handle_get_request; "" if it reports nothing.
DecodeError(packet) ==
  LET r == parse_packet(packet)
  IN IF r.error # "" THEN r.error
     ELSE IF r.pkt_type \in {WHOHAS, IHAVE} /\ BadHashPayload(r.payload)
     THEN "Payload length must be multiple of 20"
     ELSE IF r.pkt_type = GET /\ Len(r.payload) # HASH_LEN
     THEN "Invalid GET packet payload size"
     ELSE ""

\* ----------------------------------------- datagrams built, forged and parsed
\* Peer B builds messages with the six builders, legal arguments and illegal
\* ones, or forges a datagram; peer A, which holds the chunks, receives what
\* is in flight, parses it and handles it.

\* arguments of the builders: lists of hashes, a sequence or acknowledgment
\* number of more than one byte, payloads up to one byte too many
HashLists == {<<>>, <<RawHash(1)>>, <<RawHash(3), RawHash(2)>>}
WideNumber == ((256 * 1 + 2) * 256 + 3) * 256 + 4
SeqNumbers == {1, WideNumber}
AckNumbers == {0, 1, 2, WideNumber}
DataPayloads == {SubSeq(<<7, 8, 9, 10, 11>>, 1, n) : n \in 0..(MAX_PAYLOAD_SIZE + 1)}

\* a header without its last byte; an ACK with a byte too many; WHOHAS, IHAVE
\* and GET with a hash that lacks its last byte; and a GET whose header_len
\* field says 11, followed by the last 19 bytes of a hash that A holds, the
\* first byte of that hash being the last byte of its header
ShortHash == SubSeq(RawHash(1), 1, HASH_LEN - 1)
TruncatedHeader == SubSeq(Packed(build_denied_packet), 1, HEADER_LEN - 1)
OverlongAck == Packed(build_ack_packet(1)) \o <<0>>
ShortHeaderGet ==
  struct_pack(GET, HEADER_LEN - 1, HEADER_LEN + HASH_LEN - 1, 0, RawHash(1)[1])
    \o Tail(RawHash(1))
Forged ==
  {TruncatedHeader, OverlongAck, ShortHeaderGet,
   Packed(PacketInfo(WHOHAS, 0, 0, ShortHash)),
   Packed(PacketInfo(IHAVE, 0, 0, ShortHash)),
   Packed(PacketInfo(GET, 0, 0, ShortHash))}

InitCodec ==
  InitWith([p \in Peers |-> IF p = Server THEN ServerChunks ELSE <<>>],
           [p \in Peers |-> 1], [p \in Peers |-> 0], [p \in Peers |-> <<>>])

\* B calls a builder: it raises, or its datagram is in flight to A
Offer(pkt_info, built, bytes, raised) ==
  /\ net = {}
  /\ net' = IF raised THEN {}
            ELSE {[to |-> Server, from |-> Downloader, pkt |-> pkt_info,
                   built |-> built, bytes |-> bytes]}
  /\ sent' = [by |-> Downloader, msgs |-> <<>>]
  /\ last' = Event(IF raised THEN "raised" ELSE IF built THEN "built" ELSE "forged",
                   Downloader, "", pkt_info)
  /\ UNCHANGED <<config, stdin, pc, handshake, transfer, tasks, output,
                 last_cleanup_age>>

Build(pkt_info, raised) == Offer(pkt_info, TRUE, Packed(pkt_info), raised)

BuildWhoHas ==
  \E chunk_hashes \in HashLists :
     Build(build_who_has_packet(chunk_hashes), WhoHasRaises(chunk_hashes))

BuildIHave ==
  \E chunk_hashes \in HashLists :
     Build(build_i_have_packet(chunk_hashes), WhoHasRaises(chunk_hashes))

BuildGet ==
  \E chunk_hash \in GetPayloads :
     Build(build_get_packet(chunk_hash), GetRaises(chunk_hash))

BuildData ==
  \E seq_num \in SeqNumbers, data \in DataPayloads :
     Build(build_data_packet(seq_num, data), DataRaises(data))

BuildAck == \E ack_num \in AckNumbers : Build(build_ack_packet(ack_num), FALSE)

BuildDenied == Build(build_denied_packet, FALSE)

Forge == \E bytes \in Forged : Offer(build_denied_packet, FALSE, bytes, FALSE)

\* process_inbound_udp when parse_packet raises: the except clause, nothing else
ParseFails(p, r, from_addr) ==
  /\ pc[p] = "select"
  /\ sent' = [by |-> p, msgs |-> <<>>]
  /\ last' = Event("error", p, from_addr, r)
  /\ Frame(p, AfterSelect(p))
  /\ UNCHANGED <<stdin, last_cleanup_age, handshake, transfer, tasks, output>>

\* A receives the datagram in flight
Receive ==
  \E d \in net :
     /\ LET r == parse_packet(d.bytes)
        IN IF r.error # "" THEN ParseFails(d.to, r, d.from)
           ELSE process_inbound_udp(d.to, r, d.from)
     /\ net' = {}

NextCodec ==
  \/ BuildWhoHas
  \/ BuildIHave
  \/ BuildGet
  \/ BuildData
  \/ BuildAck
  \/ BuildDenied
  \/ Forge
  \/ Receive
  \/ Idle
  \/ Tick
  \/ TimePasses

SpecCodec == InitCodec /\ [][NextCodec]_vars

\* the step in which A receives the datagram d
Received(d) == d \in net /\ net' = {} /\ last'.kind \in {"datagram", "error"}

\* C19: for each of the six message types and every legal payload, parsing
\* the datagram that the builder returned gives the same type, seq_num,
\* ack_num and payload, header_len 12 and pkt_len the datagram's length.
CodecRoundTrip ==
  [][\A d \in net :
        (Received(d) /\ d.built)
          => /\ last'.kind = "datagram"
             /\ last'.pkt.error = ""
             /\ last'.pkt.pkt_type = d.pkt.pkt_type
             /\ last'.pkt.seq_num = d.pkt.seq_num
             /\ last'.pkt.ack_num = d.pkt.ack_num
             /\ last'.pkt.payload = d.pkt.payload
             /\ last'.pkt.header_len = 12
             /\ last'.pkt.pkt_len = Len(d.bytes)]_vars

\* A has parsed the DATA packet built with a sequence number of four
\* different bytes and a full payload.
CodecRoundTripWitness ==
  /\ last.kind = "datagram"
  /\ last.pkt.pkt_type = DATA
  /\ last.pkt.seq_num = WideNumber
  /\ Len(last.pkt.payload) = MAX_PAYLOAD_SIZE
  /\ last.pkt.pkt_len = BUF_SIZE

\* malformed, by the wire format: shorter than the header, a pkt_len that is
\* not the length, and after the 12 bytes of the header a WHOHAS or IHAVE
\* payload that is no multiple of 20 bytes or a GET payload that is not 20
Malformed(packet) ==
  \/ Len(packet) < HEADER_LEN
  \/ Len(packet) # FromU16(SubSeq(packet, 3, 4))
  \/ packet[1] \in {WHOHAS, IHAVE} /\ (Len(packet) - HEADER_LEN) % HASH_LEN # 0
  \/ packet[1] = GET /\ Len(packet) - HEADER_LEN # HASH_LEN

\* C20: decoding reports an error for every malformed datagram, which then
\* has no effect, and building a DATA packet with a payload longer than
\* MAX_PAYLOAD_SIZE raises.
MalformedIsReported ==
  [][/\ \A d \in net :
          (Received(d) /\ Malformed(d.bytes))
            => /\ DecodeError(d.bytes) # ""
               /\ sent'.msgs = <<>>
               /\ UNCHANGED <<handshake, transfer>>
     /\ (/\ last'.kind \in {"built", "raised"}
         /\ last'.pkt.pkt_type = DATA
         /\ Len(last'.pkt.payload) > MAX_PAYLOAD_SIZE)
          => last'.kind = "raised" /\ net' = {}]_vars

\* ------------------------------------------------- properties of the sender
\* checked under Spec, where peer A serves GETs and receives arbitrary ACKs

UploadsOf(p) == {rt_upload[p][i].val : i \in 1..Len(rt_upload[p])}

\* C21: can_send_more() is true for an upload connection whose packets in
\* flight, seq_num - ack_num, equal its send window, as with cwnd = 1,
\* seq_num = 1 and ack_num = 0.
CanSendAtWindowEdge ==
  \A c \in UploadsOf(Server) :
     (c.seq_num - c.ack_num = get_send_window(c)) => can_send_more(c)

\* ------------------------------------------------- a hash that no peer holds
\* Peer B reads "DOWNLOAD" for the chunk H1 alone; peer A, the only other peer
\* that runs, holds H3 only and answers the WHOHAS with DENIED. The network
\* and the scheduling are those of SpecTrivial, and time passes again and
\* again while a peer waits in select().

InitNoHolder ==
  InitWith([p \in Peers |-> IF p = Uploader THEN TrivialChunks ELSE <<>>],
           [p \in Peers |-> 1], [p \in Peers |-> 0],
           [p \in Peers |-> IF p = Client
                            THEN <<[lines |-> <<Line("0", H1)>>, output_file |-> "out"]>>
                            ELSE <<>>])

SpecNoHolder ==
  /\ InitNoHolder
  /\ [][NextTrivial]_vars
  /\ SF_vars(TimePasses)
  /\ \A p \in Peers : []<>(pc[p] = "select") /\ []<>(pc[p] = "tasks")

\* the task of the command is registered and incomplete
TaskPending ==
  /\ Len(download_tasks[Client]) = 1
  /\ download_tasks[Client][1].key = "out"
  /\ ~task_objs[Client][download_tasks[Client][1].val].completed

Expired(reqs) == \E i \in 1..Len(reqs) : reqs[i].val.request_age > REQUEST_TIMEOUT

\* C22: for a DOWNLOAD of a single hash that no peer holds, a round of
\* periodic tasks leaves no request older than 30 s in active_requests and
\* the request is gone for good in the end; no download connection is ever
\* created, no GOT is ever printed, and the task stays registered and
\* incomplete.
UnansweredRequestExpires ==
  /\ [](rt_download[Client] = <<>> /\ stdout[Client] = <<>> /\ files[Client] = <<>>)
  /\ [](stdin[Client] = <<>> => TaskPending)
  /\ [][(last'.kind = "tasks" /\ last'.peer = Client)
          => ~Expired(active_requests'[Client])]_vars
  /\ [](stdin[Client] = <<>> => <>[](active_requests[Client] = <<>>))

\* The round of periodic tasks that removed the request has run, the answer
\* DENIED having arrived before: the task is left without request.
UnansweredRequestExpiresWitness ==
  /\ last.kind = "tasks" /\ last.peer = Client
  /\ stdin[Client] = <<>>
  /\ active_requests[Client] = <<>>
  /\ net = {}
  /\ TaskPending

\* C23: in every reachable state of an upload connection the packets in
\* flight, seq_num - ack_num, are at most the send window max(1, floor(cwnd)),
\* the states that follow a loss update included.
InFlightWithinWindow ==
  \A c \in UploadsOf(Server) : c.seq_num - c.ack_num <= get_send_window(c)

\* C24: for every upload connection, in every reachable state,
\* 0 <= ack_num <= seq_num, whatever ACK values arrive from the peer's address.
AckWithinSent ==
  \A c \in UploadsOf(Server) : 0 <= c.ack_num /\ c.ack_num <= c.seq_num

\* ----------------------------------------------- properties of the receiver
\* checked under SpecDownload

\* C25: for every download connection, in every reachable state, every key
\* of recv_buffer is strictly greater than ack_num.
BufferedAboveAck ==
  \A i \in 1..Len(rt_download[Client]) :
     LET c == rt_download[Client][i].val
     IN \A seq_num \in DOMAIN c.recv_buffer : seq_num > c.ack_num

\* --------------------------------------------- connections that have finished
\* checked under SpecDownload. A round of the loop ends with the cleanup, so
\* that a finished connection is met by the tick of its own round only.

Finished(c) == c.state \in {"complete", "error"}

SameFields(c, d) ==
  /\ d.state = c.state /\ d.seq_num = c.seq_num /\ d.ack_num = c.ack_num
  /\ d.cwnd = c.cwnd /\ d.ssthresh = c.ssthresh
  /\ d.send_buffer = c.send_buffer /\ d.recv_buffer = c.recv_buffer
  /\ d.chunk_data = c.chunk_data
  /\ d.duplicate_ack_count = c.duplicate_ack_count

\* every finished connection of before is in after with the same fields, or
\* is not in after and the step may delete
FrozenOrDeleted(before, after, deleting) ==
  \A i \in 1..Len(before) :
     Finished(before[i].val)
       => IF \E j \in 1..Len(after) : after[j].key = before[i].key
          THEN SameFields(before[i].val, ConnOf(after, before[i].key))
          ELSE deleting

\* the peer of the i-th connection has no unfinished connection in the table
OnlyFinishedWith(conns, i) ==
  \A j \in 1..Len(conns) :
     conns[j].val.peer_addr = conns[i].val.peer_addr /\ j # i
       => Finished(conns[j].val)

\* nothing of type pkt_type is sent to the peer of a finished connection,
\* unless another connection of the table has that peer
SilentFor(before, after, pkt_type) ==
  \A i \in 1..Len(before) :
     (/\ Finished(before[i].val)
      /\ OnlyFinishedWith(before, i)
      /\ \A j \in 1..Len(after) :
            after[j].val.peer_addr = before[i].val.peer_addr
              => Finished(after[j].val))
       => \A k \in 1..Len(sent'.msgs) :
             ~(/\ sent'.msgs[k].to = before[i].val.peer_addr
               /\ sent'.msgs[k].pkt.pkt_type = pkt_type)

Filled(c) ==
  c.seq_num >= Min(NumPackets(DictGet(has_chunks[Server], c.chunk_hash)),
                   c.ack_num + get_send_window(c))

\* the upload connections that a step creates
Started ==
  {rt_upload'[Server][j].val :
     j \in {k \in 1..Len(rt_upload'[Server]) :
              ~DictHas(rt_upload[Server], rt_upload'[Server][k].key)}}

\* C27: after upload start and after every new ACK on an upload of N packets,
\* send_data_packets returns with seq_num >= min(N, ack_num + W).
SenderFillsWindow ==
  [][/\ \A c \in Started : Filled(c)
     /\ NewAck => Filled(AckTargetAfter)]_vars

\* the k-th datagram of the step is DATA with sequence number seq_num + k
InOrderFrom(seq_num) ==
  \A k \in 1..Len(sent'.msgs) :
     /\ sent'.msgs[k].pkt.pkt_type = DATA
     /\ sent'.msgs[k].pkt.seq_num = seq_num + k

\* C28: within one upload the sender loop emits fresh DATA packets in
\* strictly increasing order, each carrying the previous seq_num + 1, at
\* upload start and after a new ACK for packets that were sent; what was
\* already sent is emitted again by the timeout and fast-retransmit handlers
\* only.
FreshPacketsInOrder ==
  [][/\ Started # {} => InOrderFrom(0)
     /\ (NewAck /\ last'.pkt.ack_num <= AckTarget.seq_num)
          => InOrderFrom(AckTarget.seq_num)]_vars

\* ------------------------------------------- retransmissions, in SpecWindow

\* the step sends one datagram: DATA seq_num with its slice of the chunk, to
\* the peer of connection c
SendsOnly(c, seq_num) ==
  sent'.msgs = <<Sent(build_data_packet(seq_num, BufferData(c.send_buffer, seq_num)),
                      c.peer_addr)>>

\* C29: when fast retransmit triggers on an upload connection, exactly one
\* DATA packet is sent and it carries seq = ack_num + 1, the loss update is
\* applied, duplicate_ack_count is reset to 0, and seq_num, ack_num and
\* send_buffer are unchanged.
FastRetransmitResendsOne ==
  [][FastRetransmit
       => /\ BufferHas(AckTarget.send_buffer, AckTarget.ack_num + 1)
          /\ SendsOnly(AckTarget, AckTarget.ack_num + 1)
          /\ LossStep(AckTarget, AckTargetAfter)
          /\ AckTargetAfter.duplicate_ack_count = 0
          /\ AckTargetAfter.seq_num = AckTarget.seq_num
          /\ AckTargetAfter.ack_num = AckTarget.ack_num
          /\ AckTargetAfter.send_buffer = AckTarget.send_buffer
          /\ AckTargetAfter.state = "transfer"]_vars

\* A duplicate ACK 1 has fired fast retransmit with DATA 2 and 3 in flight:
\* DATA 2 went out again and the window is back at 1.
FastRetransmitResendsOneWitness ==
  /\ Handled(ACK) /\ last.pkt.ack_num = 1
  /\ Len(sent.msgs) = 1
  /\ sent.msgs[1].pkt.pkt_type = DATA /\ sent.msgs[1].pkt.seq_num = 2
  /\ \E i \in 1..Len(rt_upload[Server]) :
        LET c == rt_upload[Server][i].val
        IN /\ c.seq_num = 3 /\ c.ack_num = 1
           /\ c.duplicate_ack_count = 0
           /\ c.cwnd = [n |-> 1, d |-> 1]

\* what the tick resends for the upload connections that have timed out, in
\* the order of the table: the first unacknowledged packet of each
RECURSIVE FirstUnacknowledged(_)
FirstUnacknowledged(conns) ==
  IF conns = <<>> THEN <<>>
  ELSE LET c == Head(conns).val
       IN (IF TimedOut(c)
           THEN <<Sent(build_data_packet(c.ack_num + 1,
                         BufferData(c.send_buffer, c.ack_num + 1)), c.peer_addr)>>
           ELSE <<>>) \o FirstUnacknowledged(Tail(conns))

\* the upload connection under key has had its timeout handled between the
\* tables before and after
Retransmitted(before, after, key) ==
  LET c == ConnOf(before, key)
      d == ConnOf(after, key)
  IN /\ \E j \in 1..Len(after) : after[j].key = key
     /\ BufferHas(c.send_buffer, c.ack_num + 1)
     /\ LossStep(c, d)
     /\ d.last_send_age = 0
     /\ d.seq_num = c.seq_num
     /\ d.ack_num = c.ack_num
     /\ d.state = c.state
     /\ d.send_buffer = c.send_buffer

\* C30: when the tick finds an active upload connection past its timeout, it
\* applies the loss update, retransmits exactly one DATA packet, the first
\* unacknowledged one (seq = ack_num + 1), stamps last_send_time, and leaves
\* seq_num, ack_num and state unchanged, whatever ack_num is.
TimeoutResendsFirstUnacknowledged ==
  [][\A p \in Peers :
        (last'.kind = "tasks" /\ last'.peer = p)
          => /\ \A i \in 1..Len(rt_upload[p]) :
                   TimedOut(rt_upload[p][i].val)
                     => Retransmitted(rt_upload[p], rt_upload'[p], rt_upload[p][i].key)
             /\ SelectSeq(sent'.msgs, LAMBDA m : m.pkt.pkt_type = DATA)
                  = FirstUnacknowledged(rt_upload[p])]_vars

\* The tick has timed out an upload with DATA 2 and 3 in flight and sent
\* DATA 2 again.
TimeoutResendsFirstUnacknowledgedWitness ==
  /\ last.kind = "tasks" /\ last.peer = Server
  /\ Len(sent.msgs) = 1
  /\ sent.msgs[1].pkt.pkt_type = DATA /\ sent.msgs[1].pkt.seq_num = 2
  /\ \E i \in 1..Len(rt_upload[Server]) :
        LET c == rt_upload[Server][i].val
        IN /\ c.seq_num = 3 /\ c.ack_num = 1
           /\ c.state = "transfer"
           /\ c.last_send_age = 0
           /\ c.cwnd = [n |-> 1, d |-> 1]

\* ------------------------------------- timeouts of downloads, in SpecDownload

\* what the tick sends for the download connections that have timed out, in
\* the order of the table: the current ack_num of each
RECURSIVE TimeoutAcks(_)
TimeoutAcks(conns) ==
  IF conns = <<>> THEN <<>>
  ELSE LET c == Head(conns).val
       IN (IF TimedOut(c)
           THEN <<Sent(build_ack_packet(c.ack_num), c.peer_addr)>>
           ELSE <<>>) \o TimeoutAcks(Tail(conns))

\* the download connection under key is in both tables, in state Transfer
\* after, with the same ack_num, recv_buffer and chunk_data
StillReceiving(before, after, key) ==
  LET c == ConnOf(before, key)
      d == ConnOf(after, key)
  IN /\ \E j \in 1..Len(after) : after[j].key = key
     /\ d.state = "transfer"
     /\ d.ack_num = c.ack_num
     /\ d.recv_buffer = c.recv_buffer
     /\ d.chunk_data = c.chunk_data

\* C31: when the tick finds an active download connection past its timeout,
\* it sends exactly one ACK carrying the current ack_num and leaves state
\* (still Transfer), ack_num, recv_buffer and chunk_data unchanged; no download
\* connection is ever in state Error, and none is removed while it is active.
DownloadTimeoutResendsAck ==
  [][\A p \in Peers :
        /\ (last'.kind = "tasks" /\ last'.peer = p)
             => /\ \A i \in 1..Len(rt_download[p]) :
                      TimedOut(rt_download[p][i].val)
                        => /\ rt_download[p][i].val.state = "transfer"
                           /\ StillReceiving(rt_download[p], rt_download'[p],
                                             rt_download[p][i].key)
                /\ SelectSeq(sent'.msgs, LAMBDA m : m.pkt.pkt_type = ACK)
                     = TimeoutAcks(rt_download[p])
        /\ \A i \in 1..Len(rt_download[p]) :
              is_active(rt_download[p][i].val)
                => \E j \in 1..Len(rt_download'[p]) :
                      /\ rt_download'[p][j].key = rt_download[p][i].key
                      /\ rt_download'[p][j].val.state # "error"]_vars

\* A tick has timed out a download that had received DATA 1 and a later
\* packet out of order: ACK 1 went out again and the connection is as it was.
DownloadTimeoutResendsAckWitness ==
  /\ last.kind = "tasks" /\ last.peer = Client
  /\ \E i \in 1..Len(sent.msgs) :
        sent.msgs[i].pkt.pkt_type = ACK /\ sent.msgs[i].pkt.ack_num = 1
  /\ \E i \in 1..Len(rt_download[Client]) :
        LET c == rt_download[Client][i].val
        IN /\ c.state = "transfer" /\ c.ack_num = 1
           /\ 3 \in DOMAIN c.recv_buffer
           /\ c.cwnd = [n |-> 1, d |-> 1]

\* the indexes of the download connections of p whose peer is from_addr
FromPeer(p, from_addr) ==
  {i \in 1..Len(rt_download[p]) : rt_download[p][i].val.peer_addr = from_addr}

\* the round of peer p has just handled a DATA packet and answered it with an
\* ACK; no time has passed since
JustAcked(p) ==
  /\ Handled(DATA) /\ last.peer = p
  /\ \E i \in 1..Len(sent.msgs) : sent.msgs[i].pkt.pkt_type = ACK

\* C32: a tick treats an active download connection as timed out only if more
\* than timeout_interval has elapsed since that connection last sent an ACK or
\* was created: the only download connection with a peer, having answered a
\* DATA packet in this round, is not past its timeout, and the tick of the
\* round sends that peer no ACK.
NoTimeoutRightAfterAck ==
  [][\A p \in Peers :
        (JustAcked(p) /\ Cardinality(FromPeer(p, last.from)) = 1
           /\ last'.kind = "tasks" /\ last'.peer = p)
          => /\ \A i \in FromPeer(p, last.from) : ~TimedOut(rt_download[p][i].val)
             /\ \A i \in 1..Len(sent'.msgs) :
                   ~(sent'.msgs[i].pkt.pkt_type = ACK /\ sent'.msgs[i].to = last.from)]_vars

\* ------------------------------------------------ a download run with -t > 0

\* SpecDownload with every peer started with -t FixedTimeout
InitFixedTimeout ==
  \E command \in Commands :
     InitWith([p \in Peers |-> IF p = Client THEN ClientChunks ELSE <<>>],
              [p \in Peers |-> 1], [p \in Peers |-> FixedTimeout],
              [p \in Peers |-> IF p = Client THEN <<command>> ELSE <<>>])

SpecFixedTimeout == InitFixedTimeout /\ [][NextDownload]_vars

\* C33: when a fixed timeout (-t > 0) is configured, the timeout_interval of
\* every upload and download connection equals the configured value in every
\* state of its life.
FixedTimeoutKept ==
  \A p \in Peers :
     timeout[p] > 0
       => \A i \in 1..Len(rt_download[p]) :
             rt_download[p][i].val.timeout_interval = custom_timeout(timeout[p])

\* ------------------------------------------------- upload slots, in Spec

\* C34: upload slots are released: when an upload has reached Complete, the
\* cleanup of the tick that removes it from the transfer layer also removes
\* its connection from the handshake manager, whose upload-connection count
\* drops by one.
UploadSlotReleased ==
  [][\A p \in Peers :
        (last'.kind = "tasks" /\ last'.peer = p)
          => \A i \in 1..Len(rt_upload[p]) :
                rt_upload[p][i].val.state = "complete"
                  => /\ ~DictHas(rt_upload'[p], rt_upload[p][i].key)
                     /\ ~DictHas(hs_upload'[p], rt_upload[p][i].key)
                     /\ Len(hs_upload'[p]) < Len(hs_upload[p])]_vars

\* --------------------------------------------- candidates, in SpecTask

\* the hashes an IHAVE payload lists, as hex strings
Offered(pkt) ==
  IF BadHashPayload(pkt.payload) THEN {}
  ELSE SeqToSet(HashStrings(extract_chunk_hashes(pkt.payload)))

\* C35: on IHAVE receipt the sender's address is recorded as a candidate for
\* exactly those payload hashes that currently have a tracked WHOHAS request:
\* the tracked hashes stay the same, the sender is appended to the candidates
\* of each tracked hash of the payload that does not list it yet, and every
\* other candidate list, the lists that already name the sender included,
\* is unchanged.
IHaveRecordsCandidates ==
  [][\A p \in Peers :
        (last'.kind = "datagram" /\ last'.peer = p /\ last'.pkt.pkt_type = IHAVE)
          => /\ Len(active_requests'[p]) = Len(active_requests[p])
             /\ \A i \in 1..Len(active_requests[p]) :
                   LET h == active_requests[p][i].key
                       before == get_download_candidates(active_requests[p], h)
                       after == get_download_candidates(active_requests'[p], h)
                   IN /\ active_requests'[p][i].key = h
                      /\ after = IF h \in Offered(last'.pkt)
                                    /\ last'.from \notin SeqToSet(before)
                                 THEN Append(before, last'.from)
                                 ELSE before]_vars

\* C has answered after A: both tracked hashes of the payload list A, then C.
IHaveRecordsCandidatesWitness ==
  /\ Handled(IHAVE) /\ last.peer = Client /\ last.from = "C"
  /\ Offered(last.pkt) = {H1, H3}
  /\ get_download_candidates(active_requests[Client], H1) = <<"A", "C">>
  /\ get_download_candidates(active_requests[Client], H3) = <<"A", "C">>

\* ----------------------------------------------- dispatch, in SpecTask

\* the hashes for which the step creates a download connection of peer p
Dispatched(p) ==
  {h \in DictKeys(rt_download'[p]) : ~DictHas(rt_download[p], h)}

\* the GET datagrams of the step
GetsSent == SelectSeq(sent'.msgs, LAMBDA m : m.pkt.pkt_type = GET)

\* the step leaves chunk h missing from the task it belongs to, with at least
\* one candidate, and its new connection goes to the first candidate
DispatchedRightly(p, h) ==
  LET candidates == get_download_candidates(active_requests'[p], h)
      c == DictGet(rt_download'[p], h)
  IN /\ DictHas(active_downloads'[p], h)
     /\ ~DictHas(task_objs'[p][DictGet(active_downloads'[p], h)].received_chunks, h)
     /\ candidates # <<>>
     /\ c.peer_addr = candidates[1]
     /\ c.chunk_hash = h /\ c.state = "transfer" /\ c.ack_num = 0
     /\ Cardinality({i \in 1..Len(GetsSent) :
                       GetsSent[i] = Sent(build_get_packet(hex_string_to_bytes(h)),
                                          candidates[1])}) = 1

\* C36: dispatch creates a download connection (and sends one GET) for a chunk
\* only if the chunk is still missing from its task, has no open download
\* connection and has at least one candidate; the chosen peer is the first
\* peer that answered IHAVE for that hash; no GET is sent without a connection
\* being created; and at most one download connection per chunk hash exists
\* at any time.
DispatchOncePerChunk ==
  [][\A p \in Peers :
        /\ \A h \in Dispatched(p) : DispatchedRightly(p, h)
        /\ sent'.by = p => Len(GetsSent) = Cardinality(Dispatched(p))
        /\ \A i, j \in 1..Len(rt_download'[p]) :
              rt_download'[p][i].key = rt_download'[p][j].key => i = j]_vars

\* One IHAVE has just dispatched both chunks of the task to its sender: two
\* GETs, two connections to A, while the other source is no candidate yet.
DispatchOncePerChunkWitness ==
  /\ Handled(IHAVE) /\ last.peer = Client /\ last.from = "A"
  /\ Len(sent.msgs) = 2
  /\ \A i \in 1..2 : sent.msgs[i].pkt.pkt_type = GET /\ sent.msgs[i].to = "A"
  /\ DictKeys(rt_download[Client]) = {H1, H3}
  /\ get_download_candidates(active_requests[Client], H1) = <<"A">>

\* --------------------------------- two DOWNLOAD commands that share a hash

\* the client is told to download H1 into "out" and then H1 into "out2"
InitTwoTasks ==
  InitWith([p \in Peers |-> IF p = Client THEN ClientChunks ELSE <<>>],
           [p \in Peers |-> 1], [p \in Peers |-> 0],
           [p \in Peers |-> IF p = Client
                            THEN <<[lines |-> <<Line("0", H1)>>,
                                    output_file |-> "out"],
                                   [lines |-> <<CommentLine, Line("0", H1)>>,
                                    output_file |-> "out2"]>>
                            ELSE <<>>])

SpecTwoTasks == InitTwoTasks /\ [][NextTask]_vars

\* C37: reverse-index invariant: for every registered download task t and
\* every hash h in t's needed set, the reverse index maps h to t.
ReverseIndexComplete ==
  \A p \in Peers : \A i \in 1..Len(download_tasks[p]) :
     LET task_id == download_tasks[p][i].val
     IN \A h \in task_objs[p][task_id].needed_chunks :
           /\ DictHas(active_downloads[p], h)
           /\ DictGet(active_downloads[p], h) = task_id

\* ------------------------------------ two chunks from one peer, concurrently

\* a second chunk of CHUNK_SIZE bytes, none of them a byte of FullChunk
OtherChunk == [i \in 1..CHUNK_SIZE |-> 100 + i]
BothChunks == <<[key |-> H1, val |-> FullChunk], [key |-> H3, val |-> OtherChunk]>>

\* Peer B reads one DOWNLOAD command that names H1 and H3 (InitTask). Peer A
\* holds both, answers IHAVE for both and serves both GETs: the DATA packets
\* of its two uploads reach B in any order.
ConcurrentIHave ==
  /\ process_inbound_udp(Client, build_i_have_packet(<<RawHash(1), RawHash(3)>>),
                         Uploader)
  /\ UNCHANGED net

ConcurrentData ==
  \E i \in 1..Len(BothChunks), seq_num \in DataSeqs :
     /\ process_inbound_udp(
          Client,
          build_data_packet(seq_num, PacketSlice(BothChunks[i].val, seq_num - 1)),
          Uploader)
     /\ UNCHANGED net

NextConcurrent ==
  \/ UserDownload
  \/ ConcurrentIHave
  \/ ConcurrentData
  \/ ClientIdle
  \/ ClientTick
  \/ TimePasses

SpecConcurrent == InitTask /\ [][NextConcurrent]_vars

IsPrefix(s, t) == Len(s) <= Len(t) /\ s = SubSeq(t, 1, Len(s))

\* C38: when two different chunks are downloaded concurrently from the same
\* peer, every DATA datagram is added to the download connection of the chunk
\* it was sent for: what a download connection of the client has assembled is
\* a prefix of the serving peer's bytes of its chunk, and the bytes handed to
\* a task for hash h are exactly the serving peer's bytes of h.
StreamsNotMixed ==
  /\ \A i \in 1..Len(rt_download[Client]) :
        IsPrefix(rt_download[Client][i].val.chunk_data,
                 DictGet(BothChunks, rt_download[Client][i].key))
  /\ \A t \in 1..Len(task_objs[Client]) :
        \A i \in 1..Len(task_objs[Client][t].received_chunks) :
           task_objs[Client][t].received_chunks[i].val
             = DictGet(BothChunks, task_objs[Client][t].received_chunks[i].key)

\* ------------------------------------------------------- a GET that is lost

\* The two peers of SpecNet over the network of SpecTrivial, which may lose a
\* GET: the datagram leaves the network and reaches no peer.
LoseGet ==
  \E d \in net :
     /\ d.pkt.pkt_type = GET
     /\ net' = net \ {d}
     /\ sent' = [by |-> "", msgs |-> <<>>]
     /\ last' = Event("lost", "", d.from, d.pkt)
     /\ UNCHANGED <<config, stdin, pc, handshake, transfer, tasks, output,
                    last_cleanup_age>>

NextGetLoss ==
  \/ NextTrivial
  \/ LoseGet

GetInFlight == \E d \in net : d.pkt.pkt_type = GET
GetArrived == Handled(GET) /\ last.peer = Uploader

\* Time keeps passing, the loop of each peer keeps turning, and the channel
\* is fair: if GETs are in the network again and again, a GET arrives again
\* and again.
SpecGetLoss ==
  /\ InitNet
  /\ [][NextGetLoss]_vars
  /\ WF_vars(TimePasses)
  /\ \A p \in Peers : []<>(pc[p] = "select") /\ []<>(pc[p] = "tasks")
  /\ ([]<>GetInFlight) => ([]<>GetArrived)

\* the GET of a chunk was lost: the requester has its download connection, no
\* GET is in the network, and the holder has never accepted one
GetDropped ==
  /\ rt_download[Client] # <<>>
  /\ ~GetInFlight
  /\ hs_upload[Uploader] = <<>>
  /\ ~GetArrived

\* C39: if the transport drops the GET of a chunk while a peer that holds the
\* chunk keeps answering, the requester eventually re-requests the chunk.
LostGetIsSentAgain == GetDropped ~> GetInFlight

\* ------------------------------------------- datagrams that are discarded

\* a type that is none of the six, on a datagram that is otherwise a GET for
\* a chunk that A holds, and on one that is otherwise an ACK 1
UnknownType == DENIED + 1
UnknownTypes ==
  {struct_pack(UnknownType, HEADER_LEN, HEADER_LEN + HASH_LEN, 0, 0) \o RawHash(1),
   struct_pack(UnknownType, HEADER_LEN, HEADER_LEN, 0, 1)}

ForgeUnknown ==
  \E bytes \in UnknownTypes :
     Offer(PacketInfo(UnknownType, 0, 0, <<>>), FALSE, bytes, FALSE)

NextDiscard ==
  \/ NextCodec
  \/ ForgeUnknown

SpecDiscard == InitCodec /\ [][NextDiscard]_vars

\* shorter than the header, of a length other than its pkt_len field, or of
\* a type that is none of the six
Undecodable(packet) ==
  \/ Len(packet) < HEADER_LEN
  \/ Len(packet) # FromU16(SubSeq(packet, 3, 4))
  \/ packet[1] \notin {WHOHAS, IHAVE, GET, DATA, ACK, DENIED}

\* C40: a received datagram that fails to decode (shorter than the header or
\* with a length mismatch) or that has an unknown type is discarded: it
\* changes no connection, handshake or task state, triggers no reply
\* datagram, and the loop of the peer goes on to its next step.
UndecodableIsDiscarded ==
  [][\A d \in net :
        (Received(d) /\ Undecodable(d.bytes))
          => /\ sent'.msgs = <<>>
             /\ UNCHANGED <<config, stdin, handshake, transfer, tasks, output>>
             /\ pc[d.to] = "select" /\ pc'[d.to] = AfterSelect(d.to)]_vars

\* A has discarded a datagram of unknown type while an upload to its sender
\* is in progress.
UndecodableIsDiscardedWitness ==
  /\ last.kind = "datagram" /\ last.peer = Server
  /\ last.pkt.pkt_type = UnknownType
  /\ pc[Server] = "tasks"
  /\ \E i \in 1..Len(rt_upload[Server]) :
        /\ rt_upload[Server][i].val.peer_addr = last.from
        /\ rt_upload[Server][i].val.state = "transfer"
        /\ rt_upload[Server][i].val.seq_num >= 1

====
